---- MODULE Spec2Model ----
(***************************************************************************)
(* Multi-agent orchestration: the parallel dispatcher and sandbox of       *)
(* core/orchestration_engine.py, the task lists built by orchestrate_*,    *)
(* and the selection / persistence / archival rounds of the workflows.     *)
(*                                                                         *)
(* The specifications:                                                     *)
(*   Spec       one engine session: __aenter__, orchestrate_design,        *)
(*              execute_parallel_tasks with its concurrent                 *)
(*              _execute_agent_task coroutines, cancellation, __aexit__.   *)
(*   SpecTasks  the task-building loops of orchestrate_design /            *)
(*              orchestrate_feature / orchestrate_development.             *)
(*   SpecRound  one execute_design_command / execute_feat_command /        *)
(*              execute_dev_command round after the agents were chosen.    *)
(*   SpecStructure  FeatEvaluator.validate_structure on one document.      *)
(*   SpecEval   one call of evaluate_design / evaluate_feature /           *)
(*              evaluate_code or of rank_designs / rank_features /         *)
(*              rank_code.                                                 *)
(*   SpecRegistry  a sequence of AgentRegistry.record_agent_invocation     *)
(*              calls on one registry.                                     *)
(*   SpecWorkspace  the workspace files of one _execute_agent_task call    *)
(*              and the output_files of its result.                        *)
(*   SpecCleanup  OrchestrationEngine.cleanup() called while the tasks of  *)
(*              a batch are in flight.                                     *)
(*   SpecOrchestration  one call of orchestrate_design /                   *)
(*              orchestrate_feature / orchestrate_development from the     *)
(*              batch to the returned OrchestrationResult.                 *)
(*   SpecMultiAgent  MultiAgentOrchestrator.orchestrate of                 *)
(*              multi_agent_base.py; FairMultiAgent adds the assumption    *)
(*              that every awaited agent and review answers.               *)
(***************************************************************************)
EXTENDS Integers, Sequences, FiniteSets, TLC

(***************************************************************************)
(* Bounds                                                                  *)
(***************************************************************************)
\* largest batch run by one engine session
MaxTasks == 2
\* largest agent list handed to orchestrate_* / largest batch of a round
MaxAgents == 3
\* int(time.time()) takes the values 0..MaxClock while a task list is built
MaxClock == 1
\* overall_score is modelled in steps of 1/MaxScore: 0..MaxScore is [0,1]
MaxScore == 2
\* most lines of a document handed to validate_structure
MaxLines == 3
\* longest expected_sections list
MaxExpected == 3
\* largest candidate list handed to rank_designs / rank_features / rank_code
MaxCandidates == 3
\* record_agent_invocation calls made on one registry
MaxCalls == 4

VARIABLES
    \* ---- engine session (Spec) ----
    enginePc,          \* position of the session: new, entered, gathering, returned, cancelled, closed
    temp_dir,          \* self.temp_dir on disk: none, exists, removed
    workspaces,        \* task_ids whose directory exists under temp_dir
    active_processes,  \* self.active_processes: task_id -> index of the task owning the process
    tasks,             \* the batch handed to execute_parallel_tasks
    pc,                \* position of each _execute_agent_task coroutine
    proc,              \* the worker process of each task: none, running, killed, exited
    returncode,        \* exit status of an exited worker
    stderr_out,        \* whether an exited worker wrote to stderr
    timeout_fired,     \* wait_for raised TimeoutError for the task while its worker ran
    ret,               \* how each coroutine ended: pending, returned, raised, cancelled
    agent_result,      \* the AgentResult a coroutine returned
    exc,               \* str(e) of the exception a coroutine raised
    final_results,     \* list returned by execute_parallel_tasks
    cancel_requested,  \* the awaiting session task was cancelled
    \* ---- task lists (SpecTasks) ----
    tl_kind,           \* which orchestrate_* builds the list
    tl_agents,         \* its agents argument
    tl_section,        \* section_id (orchestrate_feature)
    tl_clock,          \* current int(time.time())
    tl_tasks,          \* tasks appended so far
    \* ---- workflow round (SpecRound) ----
    roundPc,           \* start, orchestrated, selected, saved, done
    task_type,         \* design, feat, dev
    approval,          \* user approval: disabled, yes, alternative, regenerate
    all_results,       \* orchestration_result.all_results
    orch_success,      \* orchestration_result.success
    evaluation_results,\* ranked list of <<candidate index, key>>
    selected,          \* the selected candidate
    save_calls,        \* arguments of the save_design / save_feature / save_code calls
    archive_calls,     \* arguments of the archive_candidates calls
    command_result,    \* 'success' of the dictionary the command returns: none, ok, failed
    \* ---- structural validation (SpecStructure) ----
    sv_pc,             \* start, validated
    sv_content,        \* feat_content: the lines of the document
    sv_expected,       \* expected_sections
    sv_result,         \* the StructuralValidation returned
    \* ---- evaluators (SpecEval) ----
    ev_pc,             \* start, evaluated, ranked, raised
    ev_kind,           \* which evaluator: design, feat, code
    ev_language,       \* the language argument
    ev_expected,       \* expected_structure (rank_features, evaluate_feature)
    ev_candidates,     \* the contents handed in
    ev_scored,         \* the (index, score) list returned
    \* ---- agent registry (SpecRegistry) ----
    health_metrics,    \* agent name -> AgentHealth
    rg_clock,          \* calls made so far (datetime.now())
    rg_successes,      \* history: calls with success=True, per agent
    rg_calls,          \* history: calls, per agent
    rg_history,        \* history: the arguments of the calls, in the order they ran
    \* ---- task workspace (SpecWorkspace) ----
    ws_pc,             \* start, created, running, exited, returned
    ws_input,          \* names of the task's input_files
    ws_files,          \* the files under task_dir
    ws_returncode,     \* exit status of the worker
    ws_result,         \* success and output_files of the AgentResult
    \* ---- cleanup() during a batch (SpecCleanup) ----
    cu_n,              \* number of processes of the batch
    cu_pc,             \* cleanup(): idle, waiting, done, raised
    cu_active,         \* keys of active_processes
    cu_proc,           \* process -> running, exited
    cu_task,           \* task -> communicate, finished
    cu_used,           \* size of the dictionary when the iterator was created
    cu_pos,            \* last key the iterator returned
    cu_at_call,        \* keys of active_processes when cleanup() was called
    cu_visited,        \* keys the loop body ran for
    cu_temp_dir,       \* created, removed
    \* ---- orchestrate_* (SpecOrchestration) ----
    orch_pc,           \* start, the task type while the batch runs, returned
    orch_tasks,        \* the AgentTasks of the batch, in submission order
    orch_outcome,      \* task -> its AgentResult
    orch_finished,     \* the tasks in the order they ended
    orch_result,       \* the returned OrchestrationResult
    \* ---- MultiAgentOrchestrator.orchestrate (SpecMultiAgent) ----
    max_retries,       \* self.max_retries
    mo_pc,             \* loop, agents, review, returned
    mo_attempt,           \* the loop variable
    mo_feedback,          \* feedback of the last review
    mo_results,           \* what gather returned for the three agents
    mo_attempts,       \* per attempt: calls of run_agent and run_review
    save_final_output, \* arguments of the calls of save_final_output
    mo_return          \* the returned (success, output_path)

engineVars == <<enginePc, temp_dir, workspaces, active_processes, tasks, pc, proc,
                returncode, stderr_out, timeout_fired, ret, agent_result, exc,
                final_results, cancel_requested>>
tlVars == <<tl_kind, tl_agents, tl_section, tl_clock, tl_tasks>>
roundVars == <<roundPc, task_type, approval, all_results, orch_success,
               evaluation_results, selected, save_calls, archive_calls, command_result>>
structVars == <<sv_pc, sv_content, sv_expected, sv_result>>
evalVars == <<ev_pc, ev_kind, ev_language, ev_expected, ev_candidates, ev_scored>>
regVars == <<health_metrics, rg_clock, rg_successes, rg_calls, rg_history>>
wsVars == <<ws_pc, ws_input, ws_files, ws_returncode, ws_result>>
cuVars == <<cu_n, cu_pc, cu_active, cu_proc, cu_task, cu_used, cu_pos, cu_at_call, cu_visited, cu_temp_dir>>
orchVars == <<orch_pc, orch_tasks, orch_outcome, orch_finished, orch_result>>
moVars == <<max_retries, mo_pc, mo_attempt, mo_feedback, mo_results, mo_attempts, save_final_output, mo_return>>
vars == <<engineVars, tlVars, roundVars, structVars, evalVars, regVars, wsVars, cuVars, orchVars, moVars>>

(***************************************************************************)
(* Strings are sequences of characters, so that an f-string is a           *)
(* concatenation and two identifiers are equal only if they spell the same.*)
(***************************************************************************)
DigitChars == <<"0", "1", "2", "3", "4", "5", "6", "7", "8", "9">>

RECURSIVE Str(_)
\* str(n) of a non-negative int: its decimal digits
Str(n) == IF n < 10 THEN <<DigitChars[n + 1]>>
          ELSE Str(n \div 10) \o <<DigitChars[(n % 10) + 1]>>

\* faulty variant: the task id is built from the timestamp alone
DesignTaskId_NoIndex(i, t) == <<"design", "_">> \o Str(t)
\* f"design_{i}_{int(time.time())}"
DesignTaskId(i, t) == <<"design", "_">> \o Str(i) \o <<"_">> \o Str(t)

\* f"feat_{section_id}_{i}_{int(time.time())}"
FeatTaskId(section_id, i, t) ==
    <<"feat", "_">> \o section_id \o <<"_">> \o Str(i) \o <<"_">> \o Str(t)

\* f"dev_{i}_{int(time.time())}"
DevTaskId(i, t) == <<"dev", "_">> \o Str(i) \o <<"_">> \o Str(t)

\* the names the registry hands out
AgentNames == <<"gad", "rad", "pad", "jad">>

\* AgentTask(agent_name=..., task_id=...)
AgentTask(name, id) == [agent_name |-> name, task_id |-> id]

(***************************************************************************)
(* AgentResult values                                                      *)
(***************************************************************************)
NoError == "None"
ErrExitCode == "Process exited with code"
ErrTimeout == "Task timed out after timeout seconds"
ErrSpawn == "No such file or directory: claude-code"
ErrWorkspace == "No such file or directory: input file"
\* str(ProcessLookupError())
ErrProcessLookup == ""
StderrText == "stderr text"

AgentResult(task, ok, err) ==
    [agent_name |-> task.agent_name, task_id |-> task.task_id,
     success |-> ok, error |-> err]

NoResult == [agent_name |-> "", task_id |-> <<>>, success |-> FALSE, error |-> NoError]

\* lines 223-248: the result of a worker that ran to completion
CompletedResult(task, rc, has_stderr) ==
    LET success == rc = 0
        error   == IF has_stderr THEN StderrText ELSE NoError
    IN  AgentResult(task, success,
                    IF ~success /\ error = NoError THEN ErrExitCode ELSE error)

\* lines 250-262: except Exception as e
ExceptionResult(task, e) == AgentResult(task, FALSE, e)

RECURSIVE FinalResults_DropRaised(_, _, _, _, _)
\* faulty variant: a task that raised is logged and skipped
FinalResults_DropRaised(ts, r, ar, ex, n) ==
    IF n = 0 THEN <<>>
    ELSE LET rest == FinalResults_DropRaised(ts, r, ar, ex, n - 1)
         IN  IF r[n] = "raised" THEN rest ELSE Append(rest, ar[n])

RECURSIVE FinalResults(_, _, _, _, _)
\* lines 285-299: exceptions gathered with return_exceptions=True become failed results
FinalResults(ts, r, ar, ex, n) ==
    IF n = 0 THEN <<>>
    ELSE LET rest == FinalResults(ts, r, ar, ex, n - 1)
         IN  IF r[n] = "raised"
             THEN Append(rest, AgentResult(ts[n], FALSE, ex[n]))
             ELSE Append(rest, ar[n])

N == Len(tasks)
TaskIdx == 1..N

\* faulty variant: the dispatcher resumes as soon as one coroutine is done
GatherComplete_First == \E i \in TaskIdx : ret[i] # "pending"
\* asyncio.gather resolves when every child is done
GatherComplete == \A i \in TaskIdx : ret[i] # "pending"

(***************************************************************************)
(* Spec: one engine session                                                *)
(***************************************************************************)
EngineInit ==
    /\ enginePc = "new"
    /\ temp_dir = "none"
    /\ workspaces = {}
    /\ active_processes = <<>>
    /\ tasks = <<>>
    /\ pc = <<>>
    /\ proc = <<>>
    /\ returncode = <<>>
    /\ stderr_out = <<>>
    /\ timeout_fired = <<>>
    /\ ret = <<>>
    /\ agent_result = <<>>
    /\ exc = <<>>
    /\ final_results = <<>>
    /\ cancel_requested = FALSE

\* __aenter__
AEnter ==
    /\ enginePc = "new"
    /\ enginePc' = "entered"
    /\ temp_dir' = "exists"
    /\ UNCHANGED <<workspaces, active_processes, tasks, pc, proc, returncode,
                   stderr_out, timeout_fired, ret, agent_result, exc,
                   final_results, cancel_requested>>

\* orchestrate_design builds the batch; execute_parallel_tasks creates one
\* coroutine per task and hands them all to asyncio.gather
ExecuteParallelTasks ==
    /\ enginePc = "entered"
    /\ \E n \in 1..MaxTasks :
        /\ tasks' = [i \in 1..n |-> AgentTask(AgentNames[i], DesignTaskId(i - 1, 0))]
        /\ pc' = [i \in 1..n |-> "scheduled"]
        /\ proc' = [i \in 1..n |-> "none"]
        /\ returncode' = [i \in 1..n |-> 0]
        /\ stderr_out' = [i \in 1..n |-> FALSE]
        /\ timeout_fired' = [i \in 1..n |-> FALSE]
        /\ ret' = [i \in 1..n |-> "pending"]
        /\ agent_result' = [i \in 1..n |-> NoResult]
        /\ exc' = [i \in 1..n |-> NoError]
    /\ enginePc' = "gathering"
    /\ UNCHANGED <<temp_dir, workspaces, active_processes, final_results, cancel_requested>>

\* the coroutine ends by returning result r
Return(i, r) ==
    /\ pc' = [pc EXCEPT ![i] = "done"]
    /\ ret' = [ret EXCEPT ![i] = "returned"]
    /\ agent_result' = [agent_result EXCEPT ![i] = r]
    /\ exc' = exc

\* the coroutine ends by raising an Exception with text e
Raise(i, e) ==
    /\ pc' = [pc EXCEPT ![i] = "done"]
    /\ ret' = [ret EXCEPT ![i] = "raised"]
    /\ exc' = [exc EXCEPT ![i] = e]
    /\ agent_result' = agent_result

\* self.active_processes[task.task_id] = process
Register(ap, id, i) == [k \in (DOMAIN ap) \cup {id} |-> IF k = id THEN i ELSE ap[k]]
\* self.active_processes.pop(task.task_id, None)
Pop(ap, id) == [k \in (DOMAIN ap) \ {id} |-> ap[k]]

\* lines 170-171 and 143-158: the workspace is created before the try block,
\* so a failing mkdir or write_text leaves the coroutine as an exception
CreateWorkspaceFails(i) ==
    /\ enginePc = "gathering"
    /\ pc[i] = "scheduled"
    /\ \E dir_made \in BOOLEAN :
        workspaces' = IF dir_made THEN workspaces \cup {tasks[i].task_id} ELSE workspaces
    /\ Raise(i, ErrWorkspace)
    /\ UNCHANGED <<enginePc, temp_dir, active_processes, tasks, proc, returncode,
                   stderr_out, timeout_fired, final_results, cancel_requested>>

\* lines 170-194: workspace created, command prepared, create_subprocess_exec awaited
StartTask(i) ==
    /\ enginePc = "gathering"
    /\ pc[i] = "scheduled"
    /\ workspaces' = workspaces \cup {tasks[i].task_id}
    /\ pc' = [pc EXCEPT ![i] = "spawning"]
    /\ UNCHANGED <<enginePc, temp_dir, active_processes, tasks, proc, returncode,
                   stderr_out, timeout_fired, ret, agent_result, exc,
                   final_results, cancel_requested>>

\* create_subprocess_exec raises (executable missing): caught at line 250
SpawnFails(i) ==
    /\ pc[i] = "spawning"
    /\ Return(i, ExceptionResult(tasks[i], ErrSpawn))
    /\ UNCHANGED <<enginePc, temp_dir, workspaces, active_processes, tasks, proc,
                   returncode, stderr_out, timeout_fired, final_results, cancel_requested>>

\* lines 189-202: the worker runs, is registered, and communicate() is awaited
Spawned(i) ==
    /\ pc[i] = "spawning"
    /\ proc' = [proc EXCEPT ![i] = "running"]
    /\ active_processes' = Register(active_processes, tasks[i].task_id, i)
    /\ pc' = [pc EXCEPT ![i] = "wait"]
    /\ UNCHANGED <<enginePc, temp_dir, workspaces, tasks, returncode, stderr_out,
                   timeout_fired, ret, agent_result, exc, final_results, cancel_requested>>

\* the worker exits on its own
ProcExit(i) ==
    /\ proc[i] = "running"
    /\ proc' = [proc EXCEPT ![i] = "exited"]
    /\ \E rc \in {0, 1} : returncode' = [returncode EXCEPT ![i] = rc]
    /\ \E e \in BOOLEAN : stderr_out' = [stderr_out EXCEPT ![i] = e]
    /\ UNCHANGED <<enginePc, temp_dir, workspaces, active_processes, tasks, pc,
                   timeout_fired, ret, agent_result, exc, final_results, cancel_requested>>

\* a worker that was sent SIGKILL dies
ProcDie(i) ==
    /\ proc[i] = "killed"
    /\ proc' = [proc EXCEPT ![i] = "exited"]
    /\ returncode' = [returncode EXCEPT ![i] = -9]
    /\ UNCHANGED <<enginePc, temp_dir, workspaces, active_processes, tasks, pc,
                   stderr_out, timeout_fired, ret, agent_result, exc,
                   final_results, cancel_requested>>

\* lines 199-248: communicate() completes, the entry is popped, the result is built
CommunicateDone(i) ==
    /\ pc[i] = "wait"
    /\ proc[i] = "exited"
    /\ active_processes' = Pop(active_processes, tasks[i].task_id)
    /\ Return(i, CompletedResult(tasks[i], returncode[i], stderr_out[i]))
    /\ UNCHANGED <<enginePc, temp_dir, workspaces, tasks, proc, returncode,
                   stderr_out, timeout_fired, final_results, cancel_requested>>

\* task.timeout elapses while the worker has not finished: wait_for cancels
\* communicate() and will raise TimeoutError into the coroutine
Timeout(i) ==
    /\ pc[i] = "wait"
    /\ proc[i] = "running"
    /\ pc' = [pc EXCEPT ![i] = "timedout"]
    /\ timeout_fired' = [timeout_fired EXCEPT ![i] = TRUE]
    /\ UNCHANGED <<enginePc, temp_dir, workspaces, active_processes, tasks, proc,
                   returncode, stderr_out, ret, agent_result, exc,
                   final_results, cancel_requested>>

\* lines 203-205: process.kill(), then process.wait() is awaited
Kill(i) ==
    /\ pc[i] = "timedout"
    /\ proc' = [proc EXCEPT ![i] = IF proc[i] = "running" THEN "killed" ELSE proc[i]]
    /\ pc' = [pc EXCEPT ![i] = "killwait"]
    /\ UNCHANGED <<enginePc, temp_dir, workspaces, active_processes, tasks,
                   returncode, stderr_out, timeout_fired, ret, agent_result, exc,
                   final_results, cancel_requested>>

\* line 204 when the worker already exited and the event loop closed its
\* transport: process.kill() raises ProcessLookupError, which the finally
\* clause (pop) and the handler at line 250 turn into a failed result
KillRaises(i) ==
    /\ pc[i] = "timedout"
    /\ proc[i] = "exited"
    /\ active_processes' = Pop(active_processes, tasks[i].task_id)
    /\ Return(i, ExceptionResult(tasks[i], ErrProcessLookup))
    /\ UNCHANGED <<enginePc, temp_dir, workspaces, tasks, proc, returncode,
                   stderr_out, timeout_fired, final_results, cancel_requested>>

\* lines 205-208 and 250-262: process.wait() returns, TimeoutError is raised,
\* the entry is popped and the handler builds the failed result
TimeoutResult(i) ==
    /\ pc[i] = "killwait"
    /\ proc[i] = "exited"
    /\ active_processes' = Pop(active_processes, tasks[i].task_id)
    /\ Return(i, ExceptionResult(tasks[i], ErrTimeout))
    /\ UNCHANGED <<enginePc, temp_dir, workspaces, tasks, proc, returncode,
                   stderr_out, timeout_fired, final_results, cancel_requested>>

\* the task awaiting the session is cancelled: gather cancels every child
Abort ==
    /\ enginePc = "gathering"
    /\ ~cancel_requested
    /\ cancel_requested' = TRUE
    /\ UNCHANGED <<enginePc, temp_dir, workspaces, active_processes, tasks, pc, proc,
                   returncode, stderr_out, timeout_fired, ret, agent_result, exc,
                   final_results>>

\* CancelledError is thrown into a child at its await: it is not an
\* Exception, so only the finally clause (pop) runs; the worker is not killed
CancelChild(i) ==
    /\ cancel_requested
    /\ pc[i] \in {"scheduled", "spawning", "wait", "timedout", "killwait"}
    /\ active_processes' = Pop(active_processes, tasks[i].task_id)
    /\ pc' = [pc EXCEPT ![i] = "done"]
    /\ ret' = [ret EXCEPT ![i] = "cancelled"]
    /\ UNCHANGED <<enginePc, temp_dir, workspaces, tasks, proc, returncode, stderr_out,
                   timeout_fired, agent_result, exc, final_results, cancel_requested>>

\* lines 283-306: gather resolves and execute_parallel_tasks returns
GatherDone ==
    /\ enginePc = "gathering"
    /\ ~cancel_requested
    /\ GatherComplete
    /\ final_results' = FinalResults(tasks, ret, agent_result, exc, N)
    /\ enginePc' = "returned"
    /\ UNCHANGED <<temp_dir, workspaces, active_processes, tasks, pc, proc, returncode,
                   stderr_out, timeout_fired, ret, agent_result, exc, cancel_requested>>

\* gather of a cancelled session raises CancelledError once every child is done
GatherCancelled ==
    /\ enginePc = "gathering"
    /\ cancel_requested
    /\ \A i \in TaskIdx : ret[i] # "pending"
    /\ enginePc' = "cancelled"
    /\ UNCHANGED <<temp_dir, workspaces, active_processes, tasks, pc, proc, returncode,
                   stderr_out, timeout_fired, ret, agent_result, exc, final_results,
                   cancel_requested>>

\* __aexit__ -> cleanup(), lines 123-141.  Every coroutine has popped its
\* entry before gather resolves, so the loop over active_processes finds
\* nothing to terminate here; what it would terminate is written out.
Cleanup ==
    /\ enginePc \in {"returned", "cancelled"}
    /\ proc' = [i \in TaskIdx |->
                  IF proc[i] = "running"
                     /\ \E k \in DOMAIN active_processes : active_processes[k] = i
                  THEN "exited" ELSE proc[i]]
    /\ active_processes' = <<>>
    /\ temp_dir' = "removed"
    /\ workspaces' = {}
    /\ enginePc' = "closed"
    /\ UNCHANGED <<tasks, pc, returncode, stderr_out, timeout_fired, ret,
                   agent_result, exc, final_results, cancel_requested>>

EngineNext ==
    \/ AEnter
    \/ ExecuteParallelTasks
    \/ \E i \in TaskIdx : CreateWorkspaceFails(i)
    \/ \E i \in TaskIdx : StartTask(i)
    \/ \E i \in TaskIdx : SpawnFails(i)
    \/ \E i \in TaskIdx : Spawned(i)
    \/ \E i \in TaskIdx : ProcExit(i)
    \/ \E i \in TaskIdx : ProcDie(i)
    \/ \E i \in TaskIdx : CommunicateDone(i)
    \/ \E i \in TaskIdx : Timeout(i)
    \/ \E i \in TaskIdx : Kill(i)
    \/ \E i \in TaskIdx : KillRaises(i)
    \/ \E i \in TaskIdx : TimeoutResult(i)
    \/ Abort
    \/ \E i \in TaskIdx : CancelChild(i)
    \/ GatherDone
    \/ GatherCancelled
    \/ Cleanup

(***************************************************************************)
(* Properties of the engine session (checked under Spec)                   *)
(***************************************************************************)
Returned == enginePc = "returned" \/ (enginePc = "closed" /\ ~cancel_requested)

\* C1: execute_parallel_tasks returns exactly one result per submitted task,
\* and result i carries the task_id and agent_name of task i, whichever tasks
\* succeed, exit non-zero, time out or raise.
C1_OneResultPerTaskInOrder ==
    Returned =>
        /\ Len(final_results) = N
        /\ \A i \in TaskIdx :
            /\ final_results[i].task_id = tasks[i].task_id
            /\ final_results[i].agent_name = tasks[i].agent_name

\* a batch has returned in which one task raised during workspace creation,
\* one task timed out or failed, or succeeded next to it
C1_Witness ==
    /\ enginePc = "returned"
    /\ N = MaxTasks
    /\ \E i \in TaskIdx : ret[i] = "raised"
    /\ \E j \in TaskIdx : ret[j] = "returned" /\ final_results[j].success

\* C2: _execute_agent_task never raises to its caller; every failure comes
\* back as an AgentResult with success=false.
C2_SandboxNeverRaises ==
    \A i \in TaskIdx : ret[i] # "raised"

\* C3: once _execute_agent_task has returned a result for a task, the task's
\* workspace directory no longer exists.
C3_WorkspaceRemovedOnReturn ==
    \A i \in TaskIdx : ret[i] = "returned" => tasks[i].task_id \notin workspaces

\* C4: a task whose worker had not finished when the timeout elapsed ends with
\* the worker killed and exited, success=false and an error text naming the
\* timeout.
C4_TimeoutYieldsTimeoutError ==
    \A i \in TaskIdx :
        (timeout_fired[i] /\ ret[i] = "returned") =>
            /\ proc[i] = "exited"
            /\ agent_result[i].success = FALSE
            /\ agent_result[i].error = ErrTimeout

\* C5: when the session is aborted with tasks in flight, no worker process is
\* left running once cleanup() has returned, and the temporary directory with
\* every workspace is gone.
C5_NoOrphanAfterCleanup ==
    enginePc = "closed" =>
        /\ \A i \in TaskIdx : proc[i] # "running"
        /\ temp_dir = "removed"
        /\ workspaces = {}

\* C6: every task of the batch is started before the dispatcher waits, and
\* execute_parallel_tasks returns only when every task has a final outcome and
\* no worker process is still running.
C6_WaitsForAll ==
    /\ enginePc = "gathering" => DOMAIN pc = TaskIdx
    /\ Returned =>
        \A i \in TaskIdx :
            /\ pc[i] = "done"
            /\ ret[i] \in {"returned", "raised"}
            /\ proc[i] \in {"none", "exited"}

\* a full batch has returned although one task finished long before another:
\* one worker exited by itself and another had to be killed after its timeout
C6_Witness ==
    /\ enginePc = "returned"
    /\ N = MaxTasks
    /\ \E i, j \in TaskIdx :
        /\ i # j
        /\ final_results[i].success
        /\ timeout_fired[j]
        /\ final_results[j].error = ErrTimeout

(***************************************************************************)
(* SpecTasks: the task lists of orchestrate_design / _feature / _development*)
(***************************************************************************)
TaskKinds == {"design", "feat", "dev"}

\* agent lists of every length up to MaxAgents, repeated names included
AgentLists == UNION {[1..n -> {AgentNames[1], AgentNames[2]}] : n \in 0..MaxAgents}

\* section identifiers: a number, a dotted number, a name with an underscore
SectionIds == {<<"1">>, <<"2", ".", "1">>, <<"a", "_", "1">>}

\* the task_id the loop body computes in iteration i (enumerate index) at time t
TaskIdOf(kind, section_id, i, t) ==
    CASE kind = "design" -> DesignTaskId(i, t)
      [] kind = "feat"   -> FeatTaskId(section_id, i, t)
      [] kind = "dev"    -> DevTaskId(i, t)

\* line 145: Path(self.temp_dir) / task.task_id
WorkspacePath(id) == <<"temp_dir", "/">> \o id

TlIdle ==
    /\ tl_kind = "design"
    /\ tl_agents = <<>>
    /\ tl_section = <<>>
    /\ tl_clock = 0
    /\ tl_tasks = <<>>

TlInit ==
    /\ tl_kind \in TaskKinds
    /\ tl_agents \in AgentLists
    /\ tl_section \in (IF tl_kind = "feat" THEN SectionIds ELSE {<<>>})
    /\ tl_clock = 0
    /\ tl_tasks = <<>>

\* time passes between two iterations of the loop
Tick ==
    /\ tl_clock < MaxClock
    /\ tl_clock' = tl_clock + 1
    /\ UNCHANGED <<tl_kind, tl_agents, tl_section, tl_tasks>>

\* one iteration of "for i, agent_name in enumerate(agents): tasks.append(...)"
AppendTask ==
    /\ Len(tl_tasks) < Len(tl_agents)
    /\ LET i == Len(tl_tasks)
       IN  tl_tasks' = Append(tl_tasks,
                AgentTask(tl_agents[i + 1], TaskIdOf(tl_kind, tl_section, i, tl_clock)))
    /\ UNCHANGED <<tl_kind, tl_agents, tl_section, tl_clock>>

TlNext == Tick \/ AppendTask

\* C7: the task_ids of one batch, and with them the workspace paths and the
\* keys of active_processes, are pairwise distinct for every list of agents.
C7_TaskIdsDistinct ==
    \A i, j \in 1..Len(tl_tasks) :
        i # j =>
            /\ tl_tasks[i].task_id # tl_tasks[j].task_id
            /\ WorkspacePath(tl_tasks[i].task_id) # WorkspacePath(tl_tasks[j].task_id)

\* a full list was built within one second for an agent named twice
C7_Witness ==
    /\ Len(tl_tasks) = MaxAgents
    /\ tl_clock = 0
    /\ tl_tasks[1].agent_name = tl_tasks[2].agent_name

(***************************************************************************)
(* SpecRound: execute_design_command / execute_feat_command /              *)
(* execute_dev_command from the orchestration call to the returned result  *)
(***************************************************************************)
\* a document or file set, reduced to what the evaluators read from it
EmptyDoc == [empty |-> TRUE, overall |-> 0, is_valid |-> TRUE]
Docs(kind) ==
    [empty : {FALSE}, overall : 0..MaxScore,
     is_valid : IF kind = "feat" THEN BOOLEAN ELSE {TRUE}]

\* the AgentResults one task of a round can end with
RoundResults(kind, name) ==
    {[agent_name |-> name, success |-> FALSE, output |-> EmptyDoc, output_files |-> EmptyDoc]}
    \cup
    (IF kind = "dev"
     THEN [agent_name : {name}, success : {TRUE}, output : {EmptyDoc},
           output_files : {EmptyDoc} \cup Docs(kind)]
     ELSE [agent_name : {name}, success : {TRUE}, output : {EmptyDoc} \cup Docs(kind),
           output_files : {EmptyDoc}])

\* orchestrate_*: selected_result is the first successful result, success says there is one
OrchestrationSuccess(results) == \E i \in 1..Len(results) : results[i].success

\* _evaluate_and_select_*: the successful results (for dev: those with output files)
Candidates(kind, results) ==
    SelectSeq(results, LAMBDA r : r.success /\ (kind = "dev" => ~r.output_files.empty))

\* what rank_* evaluates of a candidate
Content(kind, c) == IF kind = "dev" THEN c.output_files ELSE c.output

RECURSIVE Scored(_, _, _)
\* the scoring loop of rank_*: (index, score) of the first n candidates;
\* rank_designs and rank_features skip a candidate whose content is empty
Scored(kind, cands, n) ==
    IF n = 0 THEN <<>>
    ELSE LET c == Content(kind, cands[n])
         IN  IF kind # "dev" /\ c.empty
             THEN Scored(kind, cands, n - 1)
             ELSE Append(Scored(kind, cands, n - 1),
                         [index |-> n, overall |-> c.overall, is_valid |-> c.is_valid])

\* sort_key of rank_features; the overall score for designs and code
SortKey(kind, item) ==
    IF kind = "feat"
    THEN item.overall + (IF item.is_valid THEN 0 ELSE 0 - MaxScore)
    ELSE item.overall

RECURSIVE InsertDesc_Unstable(_, _, _)
\* faulty variant: x goes in front of the elements with its own key
InsertDesc_Unstable(kind, s, x) ==
    IF s = <<>> THEN <<x>>
    ELSE IF SortKey(kind, Head(s)) > SortKey(kind, x)
         THEN <<Head(s)>> \o InsertDesc_Unstable(kind, Tail(s), x)
         ELSE <<x>> \o s

RECURSIVE InsertDesc(_, _, _)
\* x goes behind every element whose key is at least its own
InsertDesc(kind, s, x) ==
    IF s = <<>> THEN <<x>>
    ELSE IF SortKey(kind, Head(s)) >= SortKey(kind, x)
         THEN <<Head(s)>> \o InsertDesc(kind, Tail(s), x)
         ELSE <<x>> \o s

RECURSIVE SortDesc(_, _)
\* list.sort(key=..., reverse=True): descending and stable
SortDesc(kind, s) ==
    IF s = <<>> THEN <<>>
    ELSE InsertDesc(kind, SortDesc(kind, SubSeq(s, 1, Len(s) - 1)), s[Len(s)])

\* rank_designs / rank_features / rank_code
Rank(kind, cands) == SortDesc(kind, Scored(kind, cands, Len(cands)))

\* faulty variant: the ranked index is looked up in all_results instead of candidates
SelectBest_FromAllResults(results, cands, ranked) == results[ranked[1].index]
\* best_index, best_score = evaluation_results[0]; selected = candidates[best_index]
SelectBest(results, cands, ranked) == cands[ranked[1].index]

\* faulty variant: every result of the batch is archived
NonSelected_All(results, name) == results
\* [result for result in all_results if result.agent_name != selected['agent_name']]
NonSelected(results, name) == SelectSeq(results, LAMBDA r : r.agent_name # name)

RoundIdle ==
    /\ roundPc = "start"
    /\ task_type = "design"
    /\ approval = "disabled"
    /\ all_results = <<>>
    /\ orch_success = FALSE
    /\ evaluation_results = <<>>
    /\ selected = <<>>
    /\ save_calls = <<>>
    /\ archive_calls = <<>>
    /\ command_result = "none"

RoundInit ==
    /\ roundPc = "start"
    /\ task_type \in TaskKinds
    /\ approval \in {"disabled", "yes", "alternative", "regenerate"}
    /\ approval = "regenerate" => task_type = "design"
    /\ all_results = <<>>
    /\ orch_success = FALSE
    /\ evaluation_results = <<>>
    /\ selected = <<>>
    /\ save_calls = <<>>
    /\ archive_calls = <<>>
    /\ command_result = "none"

\* the command ends in its "except Exception" handler
Fail ==
    /\ roundPc' = "done"
    /\ command_result' = "failed"

\* _orchestrate_*: the engine session runs the batch of the chosen agents
\* (distinct registry names); every task ends as a success or a failure
Orchestrate ==
    /\ roundPc = "start"
    /\ \E n \in 1..MaxAgents :
        \E rs \in [1..n -> RoundResults(task_type, "")] :
            LET results == [k \in 1..n |-> [rs[k] EXCEPT !.agent_name = AgentNames[k]]]
            IN  /\ all_results' = results
                /\ orch_success' = OrchestrationSuccess(results)
    /\ roundPc' = "orchestrated"
    /\ UNCHANGED <<task_type, approval, evaluation_results, selected, save_calls,
                   archive_calls, command_result>>

\* faulty variant: the results of a failed batch are archived for diagnostics
OrchestrationFailed_ArchivesFailures ==
    /\ roundPc = "orchestrated"
    /\ ~orch_success
    /\ roundPc' = "done"
    /\ command_result' = "failed"
    /\ archive_calls' = Append(archive_calls, all_results)
    /\ UNCHANGED <<task_type, approval, all_results, orch_success, evaluation_results,
                   selected, save_calls>>

\* if not orchestration_result.success: raise RuntimeError
OrchestrationFailed ==
    /\ roundPc = "orchestrated"
    /\ ~orch_success
    /\ Fail
    /\ UNCHANGED <<task_type, approval, all_results, orch_success, evaluation_results,
                   selected, save_calls, archive_calls>>

\* _evaluate_and_select_*: RuntimeError without candidates, IndexError in
\* rank_* when no candidate was scored, else the candidate ranked first
EvaluateAndSelect ==
    /\ roundPc = "orchestrated"
    /\ orch_success
    /\ LET cands  == Candidates(task_type, all_results)
           ranked == Rank(task_type, cands)
       IN  IF cands = <<>> \/ ranked = <<>>
           THEN /\ Fail
                /\ UNCHANGED <<evaluation_results, selected>>
           ELSE /\ evaluation_results' = ranked
                /\ selected' = SelectBest(all_results, cands, ranked)
                /\ roundPc' = "selected"
                /\ UNCHANGED command_result
    /\ UNCHANGED <<task_type, approval, all_results, orch_success, save_calls, archive_calls>>

\* user approval, then persistence.save_*: an alternative comes back as an
\* (index, score) tuple, which the save call cannot subscript (TypeError);
\* "regenerate" raises RuntimeError
ApproveAndSave ==
    /\ roundPc = "selected"
    /\ IF approval \in {"alternative", "regenerate"}
       THEN /\ Fail
            /\ UNCHANGED save_calls
       ELSE /\ save_calls' = Append(save_calls,
                    [agent_name |-> selected.agent_name,
                     content |-> Content(task_type, selected)])
            /\ roundPc' = "saved"
            /\ UNCHANGED command_result
    /\ UNCHANGED <<task_type, approval, all_results, orch_success, evaluation_results,
                   selected, archive_calls>>

\* archive the non-selected results and return the success dictionary
ArchiveNonSelected ==
    /\ roundPc = "saved"
    /\ LET non_selected == NonSelected(all_results, selected.agent_name)
       IN  archive_calls' = IF non_selected # <<>>
                            THEN Append(archive_calls, non_selected)
                            ELSE archive_calls
    /\ roundPc' = "done"
    /\ command_result' = "ok"
    /\ UNCHANGED <<task_type, approval, all_results, orch_success, evaluation_results,
                   selected, save_calls>>

RoundNext ==
    \/ Orchestrate
    \/ OrchestrationFailed
    \/ EvaluateAndSelect
    \/ ApproveAndSave
    \/ ArchiveNonSelected

(***************************************************************************)
(* Properties of a round (checked under SpecRound)                         *)
(***************************************************************************)
AllFailed == \A i \in 1..Len(all_results) : ~all_results[i].success

\* C8: when every task of the batch failed, the command ends with a failure
\* result and calls neither save_design / save_feature / save_code nor
\* archive_candidates.
C8_AllFailedNoPersistence ==
    (roundPc # "start" /\ AllFailed) =>
        /\ save_calls = <<>>
        /\ archive_calls = <<>>
        /\ command_result # "ok"
        /\ roundPc = "done" => command_result = "failed"

\* a full batch in which every task failed has been brought to its end
C8_Witness ==
    /\ roundPc = "done"
    /\ Len(all_results) = MaxAgents
    /\ AllFailed
    /\ command_result = "failed"

\* the candidate that rank_* put at position 0
TopRanked == Candidates(task_type, all_results)[evaluation_results[1].index]

WinnerIndex == CHOOSE i \in 1..Len(all_results) : all_results[i] = TopRanked
Without(s, i) == SubSeq(s, 1, i - 1) \o SubSeq(s, i + 1, Len(s))
Archived == IF archive_calls = <<>> THEN <<>> ELSE archive_calls[1]

\* C10: after a successful round archive_candidates has received every
\* outcome of the batch except the winner's, failed and successful alike, and
\* not the winner's outcome.
C10_ArchivedAllButWinner ==
    command_result = "ok" =>
        /\ Len(archive_calls) <= 1
        /\ Archived = Without(all_results, WinnerIndex)
        /\ \A k \in 1..Len(Archived) : Archived[k] # all_results[WinnerIndex]

\* a successful round archived a successful loser and a failed outcome
C10_Witness ==
    /\ command_result = "ok"
    /\ Len(all_results) = MaxAgents
    /\ \E k \in 1..Len(Archived) : Archived[k].success
    /\ \E k \in 1..Len(Archived) : ~Archived[k].success

\* C20: a failure while cleaning up (the kill after a timeout, cleanup()
\* terminating processes or removing the directory) never replaces a task's
\* primary outcome: a task that ran into its timeout returns the failed
\* result carrying the timeout error.
C20_CleanupFailureKeepsOutcome ==
    \A i \in TaskIdx :
        (timeout_fired[i] /\ ret[i] = "returned") =>
            agent_result[i] = ExceptionResult(tasks[i], ErrTimeout)

\* C22: every AgentResult with success=false that _execute_agent_task or
\* execute_parallel_tasks returns has a non-empty error text, a non-zero exit
\* with empty stderr gives 'Process exited with code <code>', and success is
\* true only when the worker exited with code 0.
C22_FailureHasErrorText ==
    /\ \A i \in TaskIdx :
        ret[i] = "returned" =>
            /\ ~agent_result[i].success => agent_result[i].error \notin {"", NoError}
            /\ agent_result[i].success => (proc[i] = "exited" /\ returncode[i] = 0)
            /\ (pc[i] = "done" /\ ~timeout_fired[i] /\ proc[i] = "exited"
                    /\ returncode[i] # 0 /\ ~stderr_out[i])
                => agent_result[i].error = ErrExitCode
    /\ \A k \in 1..Len(final_results) :
        ~final_results[k].success => final_results[k].error \notin {"", NoError}

\* C12: the list rank_designs / rank_features / rank_code returns is ordered by
\* sort key descending, and two candidates with equal sort key appear in
\* their submission order.
C12_RankedDescendingStable ==
    \A a, b \in 1..Len(evaluation_results) :
        a < b =>
            /\ SortKey(task_type, evaluation_results[a]) >= SortKey(task_type, evaluation_results[b])
            /\ SortKey(task_type, evaluation_results[a]) = SortKey(task_type, evaluation_results[b])
                  => evaluation_results[a].index < evaluation_results[b].index

\* three candidates scoring high, low, high were ranked: first, third, second
C12_Witness ==
    /\ Len(evaluation_results) = 3
    /\ evaluation_results[1].index = 1
    /\ evaluation_results[2].index = 3
    /\ evaluation_results[3].index = 2
    /\ SortKey(task_type, evaluation_results[1]) = SortKey(task_type, evaluation_results[2])
    /\ SortKey(task_type, evaluation_results[2]) > SortKey(task_type, evaluation_results[3])

(***************************************************************************)
(* Markdown section structure: FeatEvaluator.extract_section_structure and *)
(* FeatEvaluator.validate_structure.  A document is the sequence of its    *)
(* lines, a line the sequence of its characters.                           *)
(***************************************************************************)
UpperChars == <<"A", "B", "C", "D", "E", "F", "G", "H", "I", "J", "K", "L", "M",
                "N", "O", "P", "Q", "R", "S", "T", "U", "V", "W", "X", "Y", "Z">>
LowerChars == <<"a", "b", "c", "d", "e", "f", "g", "h", "i", "j", "k", "l", "m",
                "n", "o", "p", "q", "r", "s", "t", "u", "v", "w", "x", "y", "z">>

\* str.lower() of one character
LowerChar(c) ==
    IF \E k \in 1..26 : UpperChars[k] = c
    THEN LowerChars[CHOOSE k \in 1..26 : UpperChars[k] = c]
    ELSE c

\* str.lower()
lower(s) == [k \in 1..Len(s) |-> LowerChar(s[k])]

\* \s of the regular expressions
IsSpace(c) == c \in {" ", "\t"}
\* \d of the regular expressions
IsDigit(c) == \E k \in 1..10 : DigitChars[k] = c

RECURSIVE lstrip(_)
lstrip(s) == IF s # <<>> /\ IsSpace(Head(s)) THEN lstrip(Tail(s)) ELSE s

RECURSIVE rstrip(_)
rstrip(s) == IF s # <<>> /\ IsSpace(s[Len(s)]) THEN rstrip(SubSeq(s, 1, Len(s) - 1)) ELSE s

\* str.strip()
strip(s) == rstrip(lstrip(s))

RECURSIVE DropNumeric(_)
\* the longest prefix matching [\d.]+ removed
DropNumeric(s) ==
    IF s # <<>> /\ (IsDigit(Head(s)) \/ Head(s) = ".") THEN DropNumeric(Tail(s)) ELSE s

\* re.sub(r'^[\d.]+\s*', '', title)
StripNumericPrefix(title) ==
    IF title # <<>> /\ (IsDigit(Head(title)) \/ Head(title) = ".")
    THEN lstrip(DropNumeric(title))
    ELSE title

\* faulty variant: the title is not lower-cased
normalized_KeepCase(title) == strip(StripNumericPrefix(title))
\* line 92: re.sub(r'^[\d.]+\s*', '', title).lower().strip()
normalized(title) == strip(lower(StripNumericPrefix(title)))

RECURSIVE DropHashes(_)
\* what follows the (#+) group
DropHashes(line) == IF line # <<>> /\ Head(line) = "#" THEN DropHashes(Tail(line)) ELSE line

IsBlank(line) == lstrip(line) = <<>>

\* the first line after line i that holds a character that is not white space, 0 if none
NextNonBlank(lines, i) ==
    IF \E j \in (i + 1)..Len(lines) : ~IsBlank(lines[j])
    THEN CHOOSE j \in (i + 1)..Len(lines) :
            /\ ~IsBlank(lines[j])
            /\ \A k \in (i + 1)..(j - 1) : IsBlank(lines[k])
    ELSE 0

NoMatch == [matched |-> FALSE, title |-> <<>>, last |-> 0]

\* r'^(#+)\s+(.+)$' with re.MULTILINE, tried at the start of line i: \s+ also
\* runs over line ends, so a line of hashes takes the next non-blank line as
\* its title; 'last' is the line on which the match ends
HeaderMatch(lines, i) ==
    LET line == lines[i]
        rest == DropHashes(line)
        j    == NextNonBlank(lines, i)
    IN  IF line = <<>> \/ Head(line) # "#" THEN NoMatch
        ELSE IF rest # <<>> /\ ~IsSpace(Head(rest)) THEN NoMatch
        ELSE IF lstrip(rest) # <<>>
             THEN [matched |-> TRUE, title |-> lstrip(rest), last |-> i]
        ELSE IF j # 0
             THEN [matched |-> TRUE, title |-> lstrip(lines[j]), last |-> j]
        ELSE IF Len(rest) >= 2 \/ \E m \in (i + 1)..Len(lines) : lines[m] # <<>>
             THEN [matched |-> TRUE, title |-> <<" ">>, last |-> Len(lines)]
             ELSE NoMatch

RECURSIVE RawTitlesFrom(_, _)
\* match.group(2).strip() of every match of re.finditer from line i on
RawTitlesFrom(lines, i) ==
    IF i > Len(lines) THEN <<>>
    ELSE LET m == HeaderMatch(lines, i)
         IN  IF m.matched
             THEN <<strip(m.title)>> \o RawTitlesFrom(lines, m.last + 1)
             ELSE RawTitlesFrom(lines, i + 1)

\* lines 82-95
extract_section_structure(content) ==
    LET titles == RawTitlesFrom(content, 1)
    IN  [k \in 1..Len(titles) |-> normalized(titles[k])]

Range(s) == {s[k] : k \in 1..Len(s)}
Max(a, b) == IF a >= b THEN a ELSE b

\* a score as the fraction num/den
Ratio(num, den) == [num |-> num, den |-> den]

\* faulty variant: the header titles are compared as written
FoundSections_Raw(feat_content) == RawTitlesFrom(feat_content, 1)
\* line 173
FoundSections(feat_content) == extract_section_structure(feat_content)

\* faulty variant: the penalty is not divided by the number of expected sections
StructureScore_Undivided(missing, extra, n) ==
    IF n = 0 THEN Ratio(10, 10)
    ELSE IF missing = {} /\ extra = {} THEN Ratio(10 * n, 10 * n)
    ELSE Ratio(Max(0, 10 - (3 * Cardinality(missing) + Cardinality(extra))) * n, 10 * n)
\* lines 183-197: structure_score, the penalties counted in tenths
StructureScore(missing, extra, n) ==
    IF n = 0 THEN Ratio(10, 10)
    ELSE IF missing = {} /\ extra = {} THEN Ratio(10 * n, 10 * n)
    ELSE Ratio(Max(0, 10 * n - (3 * Cardinality(missing) + Cardinality(extra))), 10 * n)

\* faulty variant: an extra section makes the document invalid
IsValid_NoExtras(missing, extra, n) ==
    IF n = 0 THEN TRUE ELSE missing = {} /\ extra = {}
\* lines 183-198: is_valid
IsValid(missing, extra, n) ==
    IF n = 0 THEN TRUE
    ELSE IF missing # {} \/ extra # {} THEN Cardinality(missing) = 0
    ELSE TRUE

\* lines 173-207
validate_structure(feat_content, expected) ==
    LET found_sections   == FoundSections(feat_content)
        expected_set     == Range(expected)
        found_set        == Range(found_sections)
        missing_sections == expected_set \ found_set
        extra_sections   == found_set \ expected_set
    IN  [is_valid          |-> IsValid(missing_sections, extra_sections, Len(expected)),
         expected_sections |-> expected,
         found_sections    |-> found_sections,
         missing_sections  |-> missing_sections,
         extra_sections    |-> extra_sections,
         structure_score   |-> StructureScore(missing_sections, extra_sections, Len(expected))]

NoValidation ==
    [is_valid |-> TRUE, expected_sections |-> <<>>, found_sections |-> <<>>,
     missing_sections |-> {}, extra_sections |-> {}, structure_score |-> Ratio(10, 10)]

(***************************************************************************)
(* SpecStructure: one document validated against an expected list          *)
(***************************************************************************)
Overview == <<"o", "v", "e", "r", "v", "i", "e", "w">>
Api      == <<"a", "p", "i">>
Testing  == <<"t", "e", "s", "t", "i", "n", "g">>
SectionNames == {Overview, Api, Testing}

\* the lines documents are made of: three headers that differ from the
\* section names by case and a numeric prefix, a header with two numeric
\* prefixes, a line of hashes, hashes without a space, body text, a blank line
DocLines ==
    {<<"#", " ", "O", "v", "e", "r", "v", "i", "e", "w">>,
     <<"#", "#", " ", "2", ".", " ", "A", "P", "I">>,
     <<"#", "#", "#", " ", "T", "e", "s", "t", "i", "n", "g">>,
     <<"#", " ", "1", ".", " ", "2", ".", " ", "a", "p", "i">>,
     <<"#">>,
     <<"#", "N", "o", "t", "e", "s">>,
     <<"t", "e", "x", "t">>,
     <<" ", " ">>}

\* a document with one header for each of the letters a..h
ManyHeaders == [k \in 1..8 |-> <<"#", " ", LowerChars[k]>>]

Documents == UNION {[1..n -> DocLines] : n \in 0..MaxLines} \cup {ManyHeaders}

ExpectedLists == UNION {[1..n -> SectionNames] : n \in 0..MaxExpected}

StructIdle ==
    /\ sv_pc = "start"
    /\ sv_content = <<>>
    /\ sv_expected = <<>>
    /\ sv_result = NoValidation

StructInit ==
    /\ sv_pc = "start"
    /\ sv_content \in Documents
    /\ sv_expected = <<>>
    /\ sv_result = NoValidation

\* validate_structure(feat_content, expected_sections)
Validate ==
    /\ sv_pc = "start"
    /\ \E e \in ExpectedLists :
        /\ sv_expected' = e
        /\ sv_result' = validate_structure(sv_content, e)
    /\ sv_pc' = "validated"
    /\ UNCHANGED sv_content

\* validate_structure(d, extract_section_structure(d))
ValidateOwnStructure ==
    /\ sv_pc = "start"
    /\ sv_expected' = extract_section_structure(sv_content)
    /\ sv_result' = validate_structure(sv_content, extract_section_structure(sv_content))
    /\ sv_pc' = "roundtrip"
    /\ UNCHANGED sv_content

StructNext == Validate \/ ValidateOwnStructure

(***************************************************************************)
(* Properties of validate_structure (checked under SpecStructure)          *)
(***************************************************************************)
\* the expected names the document's normalized headers do not hold
MissingNames == Range(sv_expected) \ Range(extract_section_structure(sv_content))
\* the normalized headers of the document that are not expected
ExtraNames == Range(extract_section_structure(sv_content)) \ Range(sv_expected)
\* 0.3 x missing + 0.1 x extra, in tenths
PenaltyTenths == 3 * Cardinality(MissingNames) + Cardinality(ExtraNames)

\* C14 as stated: structure_score is 1.0 when expected_sections is empty, and
\* otherwise max(0.0, 1.0 - (0.3 x missing + 0.1 x extra)).
C14_ScoreIsOneMinusPenalty ==
    sv_pc = "validated" =>
        sv_result.structure_score.num * 10 =
            sv_result.structure_score.den *
                (IF sv_expected = <<>> THEN 10 ELSE Max(0, 10 - PenaltyTenths))

\* C14 amended: structure_score is 1.0 when expected_sections is empty, and
\* otherwise max(0.0, 1.0 - (0.3 x missing + 0.1 x extra) / len(expected_sections)).
C14_ScoreIsOneMinusPenaltyPerSection ==
    sv_pc = "validated" =>
        IF sv_expected = <<>>
        THEN sv_result.structure_score.num = sv_result.structure_score.den
        ELSE sv_result.structure_score.num * 10 * Len(sv_expected) =
                sv_result.structure_score.den *
                    Max(0, 10 * Len(sv_expected) - PenaltyTenths)

\* a document with a missing and an extra section was validated against a
\* list of several sections and scored strictly between 0 and 1
C14_Witness ==
    /\ sv_pc = "validated"
    /\ Len(sv_expected) >= 2
    /\ MissingNames # {}
    /\ ExtraNames # {}
    /\ sv_result.structure_score.num > 0
    /\ sv_result.structure_score.num < sv_result.structure_score.den

\* C15: is_valid is true exactly when no expected section is missing from the
\* document's normalized headers; extra sections never make it false.
C15_ValidIffNothingMissing ==
    sv_pc # "start" =>
        (sv_result.is_valid <=>
            \A k \in 1..Len(sv_expected) :
                \E j \in 1..Len(extract_section_structure(sv_content)) :
                    extract_section_structure(sv_content)[j] = sv_expected[k])

\* a document holding every expected section and a section nobody expected
\* was found valid
C15_Witness ==
    /\ sv_pc = "validated"
    /\ sv_expected # <<>>
    /\ ExtraNames # {}
    /\ sv_result.is_valid

\* C16: validating a document against the section list extracted from the
\* document itself reports nothing missing, nothing extra, is_valid=true and
\* structure_score=1.0.
C16_OwnStructureIsValid ==
    sv_pc = "roundtrip" =>
        /\ sv_result.missing_sections = {}
        /\ sv_result.extra_sections = {}
        /\ sv_result.is_valid
        /\ sv_result.structure_score.num = sv_result.structure_score.den

\* a document with several headers, one of them written with capitals and a
\* numeric prefix, went through the round trip
C16_Witness ==
    /\ sv_pc = "roundtrip"
    /\ Len(sv_expected) >= 2
    /\ \E k \in 1..Len(sv_content) : \E j \in 1..Len(sv_content[k]) : sv_content[k][j] = "A"
    /\ Api \in Range(sv_expected)

\* a header line "#... title" whose title starts right after one space
PlainHeader(line) ==
    /\ line # <<>>
    /\ Head(line) = "#"
    /\ Len(DropHashes(line)) >= 2
    /\ DropHashes(line)[1] = " "
    /\ ~IsSpace(DropHashes(line)[2])
WrittenTitle(line) == Tail(DropHashes(line))

\* numeric prefixes a title can carry
NumericPrefixes == {<<>>, <<"2", ".", " ">>, <<"1", ".">>, <<"2", ".", "1", " ">>}

\* the title is the name up to letter case and a leading numeric prefix
DiffersByCaseAndPrefix(title, name) ==
    \E p \in NumericPrefixes :
        /\ Len(title) = Len(p) + Len(name)
        /\ SubSeq(title, 1, Len(p)) = p
        /\ lower(SubSeq(title, Len(p) + 1, Len(title))) = name

\* C17: a document whose headers differ from the expected section names only
\* by letter case and a leading numeric prefix has no missing section, is
\* valid and scores 1.0.
C17_CaseAndPrefixIgnored ==
    ( /\ sv_pc = "validated"
      /\ sv_content # <<>>
      /\ \A k \in 1..Len(sv_content) :
            /\ PlainHeader(sv_content[k])
            /\ \E name \in Range(sv_expected) :
                  DiffersByCaseAndPrefix(WrittenTitle(sv_content[k]), name)
      /\ \A name \in Range(sv_expected) :
            \E k \in 1..Len(sv_content) :
                DiffersByCaseAndPrefix(WrittenTitle(sv_content[k]), name) )
    =>  /\ sv_result.missing_sections = {}
        /\ sv_result.is_valid
        /\ sv_result.structure_score.num = sv_result.structure_score.den

\* headers 'Overview', '2. API', 'Testing' were validated against overview, api, testing
C17_Witness ==
    /\ sv_pc = "validated"
    /\ sv_content = << <<"#", " ", "O", "v", "e", "r", "v", "i", "e", "w">>,
                       <<"#", "#", " ", "2", ".", " ", "A", "P", "I">>,
                       <<"#", "#", "#", " ", "T", "e", "s", "t", "i", "n", "g">> >>
    /\ sv_expected = <<Overview, Api, Testing>>
    /\ sv_result.missing_sections = {}
    /\ sv_result.is_valid
    /\ sv_result.structure_score.num = sv_result.structure_score.den

(***************************************************************************)
(* Scores.  A criterion score is an integer number of units, One being the *)
(* score 1.0; the unit is fine enough for hundredths, for sixths           *)
(* (evaluate_completeness) and for 0.4/13 (evaluate_implementation_detail).*)
(* A document is reduced to what the heuristic checks read from it: which  *)
(* keywords occur and how many, and the counts of headers and words.       *)
(***************************************************************************)
One == 39 * 100
\* h hundredths
Pts(h) == 39 * h

Min(a, b) == IF a <= b THEN a ELSE b

\* faulty variant: the score is not capped at 1.0
Clamp_NoCeiling(x) == Max(0, x)
\* max(0.0, min(1.0, score))
Clamp(x) == Max(0, Min(One, x))

\* the language argument: None, a language the evaluators know, another one
Languages == {"None", "go", "python", "rust", "javascript", "cobol"}

(***************************************************************************)
(* DesignEvaluator                                                         *)
(***************************************************************************)
\* keys of DesignEvaluator.language_patterns
DesignLanguages == {"go", "python", "rust", "javascript"}
\* len(lang_patterns['best_practices'])
BestPracticesLen(language) == IF language = "rust" THEN 3 ELSE 4

IdiomsFeatures ==
    [mentions_practices : BOOLEAN, pattern_matches : 0..5,
     anti_pattern_matches : 0..1, practice_matches : 0..3]

\* lines 88-156
evaluate_language_idioms(f, language) ==
    IF language \notin DesignLanguages
    THEN Clamp(Pts(50) + (IF f.mentions_practices THEN Pts(20) ELSE 0 - Pts(10)))
    ELSE Clamp(Pts(50)
            + (IF f.pattern_matches * 10 >= 5 * 7 THEN Pts(30)
               ELSE IF f.pattern_matches > 0 THEN Pts(10) ELSE 0 - Pts(20))
            + (IF f.anti_pattern_matches > 0 THEN 0 - Pts(20) ELSE Pts(10))
            + (IF f.practice_matches * 10 >= BestPracticesLen(language) * 5 THEN Pts(20)
               ELSE IF f.practice_matches > 0 THEN Pts(10) ELSE 0 - Pts(10)))

ArchitectureFeatures ==
    [component_mentions : 0..5, scalability : BOOLEAN, data_flow : BOOLEAN,
     error_handling : BOOLEAN, separation : BOOLEAN]

\* lines 158-216
evaluate_architecture(f) ==
    Clamp(Pts(50)
        + (IF f.component_mentions >= 3 THEN Pts(20)
           ELSE IF f.component_mentions > 0 THEN Pts(10) ELSE 0 - Pts(20))
        + (IF f.scalability THEN Pts(20) ELSE 0 - Pts(10))
        + (IF f.data_flow THEN Pts(15) ELSE 0 - Pts(15))
        + (IF f.error_handling THEN Pts(15) ELSE 0 - Pts(10))
        + (IF f.separation THEN Pts(10) ELSE 0))

ImplementabilityFeatures ==
    [impl_mentions : 0..5, tech_stack : BOOLEAN, complexity : BOOLEAN,
     steps : BOOLEAN, dependencies : BOOLEAN]

\* lines 218-274
evaluate_implementability(f) ==
    Clamp(Pts(50)
        + (IF f.impl_mentions >= 3 THEN Pts(30)
           ELSE IF f.impl_mentions > 0 THEN Pts(10) ELSE 0 - Pts(20))
        + (IF f.tech_stack THEN Pts(20) ELSE 0 - Pts(10))
        + (IF f.complexity THEN Pts(10) ELSE 0)
        + (IF f.steps THEN Pts(20) ELSE 0 - Pts(10))
        + (IF f.dependencies THEN Pts(10) ELSE 0))

CompletenessFeatures == [sections_found : 0..6, word_count : {0, 500, 1000}]

\* lines 276-330: completion_ratio = sections_found / 6
evaluate_completeness(f) ==
    Clamp((f.sections_found * One) \div 6
        + (IF f.word_count >= 1000 THEN Pts(10)
           ELSE IF f.word_count >= 500 THEN 0 ELSE 0 - Pts(10)))

InnovationFeatures ==
    [innovative : BOOLEAN, modern : BOOLEAN, efficient : BOOLEAN,
     flexible : BOOLEAN, convoluted : BOOLEAN]

\* lines 332-377
evaluate_innovation(f) ==
    Clamp(Pts(50)
        + (IF f.innovative THEN Pts(20) ELSE 0)
        + (IF f.modern THEN Pts(10) ELSE 0)
        + (IF f.efficient THEN Pts(20) ELSE 0)
        + (IF f.flexible THEN Pts(20) ELSE 0)
        + (IF f.convoluted THEN 0 - Pts(10) ELSE 0))

DocumentationFeatures ==
    [header_count : {0, 3, 5}, diagrams : BOOLEAN, examples : BOOLEAN,
     avg_sentence_length : {0, 10, 25, 31}, todo : BOOLEAN]

\* lines 379-431
evaluate_documentation(f) ==
    Clamp(Pts(50)
        + (IF f.header_count >= 5 THEN Pts(20)
           ELSE IF f.header_count >= 3 THEN Pts(10) ELSE 0 - Pts(20))
        + (IF f.diagrams THEN Pts(20) ELSE 0)
        + (IF f.examples THEN Pts(20) ELSE 0)
        + (IF 10 <= f.avg_sentence_length /\ f.avg_sentence_length <= 25 THEN Pts(10)
           ELSE IF f.avg_sentence_length > 30 THEN 0 - Pts(10) ELSE 0)
        + (IF f.todo THEN 0 - Pts(20) ELSE 0))

\* EvaluationCriteria, lines 16-23: the weights in hundredths
DesignWeights ==
    [language_idioms |-> 25, architecture |-> 25, implementability |-> 20,
     completeness |-> 15, innovation |-> 10, documentation |-> 5]

RECURSIVE WeightedSumOver(_, _, _)
\* the weighted sum of lines 462-469, in units of One/100
WeightedSumOver(score, weights, S) ==
    IF S = {} THEN 0
    ELSE LET c == CHOOSE c \in S : TRUE
         IN  score[c] * weights[c] + WeightedSumOver(score, weights, S \ {c})

WeightedSum(score, weights) == WeightedSumOver(score, weights, DOMAIN weights)

\* the score object the evaluators return: the criteria as fractions of
\* 'one', overall_score as a fraction of one * 100
Score(criteria, one, weights, structural_validation) ==
    [criteria |-> [c \in DOMAIN criteria |-> Ratio(criteria[c], one)],
     overall_score |-> Ratio(WeightedSum(criteria, weights), one * 100),
     is_valid |-> structural_validation.is_valid,
     structural_validation |-> structural_validation]

\* lines 433-498: the criteria and overall_score of a DesignScore
evaluate_design(design_content, language) ==
    Score([language_idioms  |-> evaluate_language_idioms(design_content.idioms, language),
           architecture     |-> evaluate_architecture(design_content.architecture),
           implementability |-> evaluate_implementability(design_content.implementability),
           completeness     |-> evaluate_completeness(design_content.completeness),
           innovation       |-> evaluate_innovation(design_content.innovation),
           documentation    |-> evaluate_documentation(design_content.documentation)],
          One, DesignWeights, NoValidation)

\* a document in which no check finds anything
BlankDesign ==
    [empty |-> FALSE,
     idioms |-> [mentions_practices |-> FALSE, pattern_matches |-> 0,
                 anti_pattern_matches |-> 0, practice_matches |-> 0],
     architecture |-> [component_mentions |-> 0, scalability |-> FALSE, data_flow |-> FALSE,
                       error_handling |-> FALSE, separation |-> FALSE],
     implementability |-> [impl_mentions |-> 0, tech_stack |-> FALSE, complexity |-> FALSE,
                           steps |-> FALSE, dependencies |-> FALSE],
     completeness |-> [sections_found |-> 0, word_count |-> 0],
     innovation |-> [innovative |-> FALSE, modern |-> FALSE, efficient |-> FALSE,
                     flexible |-> FALSE, convoluted |-> FALSE],
     documentation |-> [header_count |-> 0, diagrams |-> FALSE, examples |-> FALSE,
                        avg_sentence_length |-> 0, todo |-> FALSE]]

\* a document in which every check finds what it rewards
RichDesign ==
    [empty |-> FALSE,
     idioms |-> [mentions_practices |-> TRUE, pattern_matches |-> 5,
                 anti_pattern_matches |-> 0, practice_matches |-> 3],
     architecture |-> [component_mentions |-> 5, scalability |-> TRUE, data_flow |-> TRUE,
                       error_handling |-> TRUE, separation |-> TRUE],
     implementability |-> [impl_mentions |-> 5, tech_stack |-> TRUE, complexity |-> TRUE,
                           steps |-> TRUE, dependencies |-> TRUE],
     completeness |-> [sections_found |-> 6, word_count |-> 1000],
     innovation |-> [innovative |-> TRUE, modern |-> TRUE, efficient |-> TRUE,
                     flexible |-> TRUE, convoluted |-> FALSE],
     documentation |-> [header_count |-> 5, diagrams |-> TRUE, examples |-> TRUE,
                        avg_sentence_length |-> 10, todo |-> FALSE]]

\* a document in which every check finds what it penalises and nothing else
PoorDesign ==
    [BlankDesign EXCEPT !.idioms.anti_pattern_matches = 1,
                        !.innovation.convoluted = TRUE,
                        !.documentation.avg_sentence_length = 31,
                        !.documentation.todo = TRUE]

\* design documents: one criterion's findings free, the others as in a
\* poor or a rich document
DesignContents ==
    UNION {
        {[base EXCEPT !.idioms = f] : f \in IdiomsFeatures}
        \cup {[base EXCEPT !.architecture = f] : f \in ArchitectureFeatures}
        \cup {[base EXCEPT !.implementability = f] : f \in ImplementabilityFeatures}
        \cup {[base EXCEPT !.completeness = f] : f \in CompletenessFeatures}
        \cup {[base EXCEPT !.innovation = f] : f \in InnovationFeatures}
        \cup {[base EXCEPT !.documentation = f] : f \in DocumentationFeatures}
        : base \in {PoorDesign, RichDesign}}

\* '' (or a missing 'output'): falsy content, in which no check finds anything
NoDesign == [BlankDesign EXCEPT !.empty = TRUE]

(***************************************************************************)
(* FeatEvaluator                                                           *)
(***************************************************************************)
DetailFeatures ==
    [detail_count : 0..13, examples : {"fence", "example", "none"},
     flow : BOOLEAN, edge_cases : BOOLEAN, performance : BOOLEAN]

\* lines 209-272: detail_score = min(1.0, detail_count / 13), weighted 0.4
evaluate_implementation_detail(f) ==
    Clamp((Min(One, (f.detail_count * One) \div 13) * 40) \div 100
        + (IF f.examples = "fence" THEN Pts(20)
           ELSE IF f.examples = "example" THEN Pts(10) ELSE 0)
        + (IF f.flow THEN Pts(20) ELSE 0)
        + (IF f.edge_cases THEN Pts(10) ELSE 0)
        + (IF f.performance THEN Pts(10) ELSE 0))

\* keys of language_patterns in evaluate_language_specificity
FeatLanguages == {"go", "python", "rust"}
\* len(patterns['positive'])
PositiveLen(language) == IF language = "python" THEN 5 ELSE 7

SpecificityFeatures ==
    [mentions_specific : BOOLEAN, positive_matches : 0..7, negative_matches : 0..1,
     practice_matches : 0..1, mentions_language : BOOLEAN]

\* lines 274-348: without a language the score is returned as computed
evaluate_language_specificity(f, language) ==
    IF language = "None"
    THEN Pts(50) + (IF f.mentions_specific THEN Pts(20) ELSE 0)
    ELSE IF language \in FeatLanguages
    THEN Clamp(Pts(50)
            + (IF f.positive_matches * 10 >= PositiveLen(language) * 5 THEN Pts(30)
               ELSE IF f.positive_matches > 0 THEN Pts(10) ELSE 0 - Pts(20))
            + (IF f.negative_matches > 0 THEN 0 - Pts(20) ELSE 0)
            + (IF f.practice_matches > 0 THEN Pts(20) ELSE 0))
    ELSE Clamp(Pts(50) + (IF f.mentions_language THEN Pts(10) ELSE 0))

AccuracyFeatures ==
    [tech_mentions : 0..10, arch_patterns : BOOLEAN, security : BOOLEAN,
     scalable : BOOLEAN, testing : BOOLEAN]

\* lines 350-408
evaluate_technical_accuracy(f) ==
    Clamp(Pts(50)
        + (IF f.tech_mentions >= 5 THEN Pts(30)
           ELSE IF f.tech_mentions >= 3 THEN Pts(10) ELSE 0 - Pts(10))
        + (IF f.arch_patterns THEN Pts(20) ELSE 0)
        + (IF f.security THEN Pts(10) ELSE 0)
        + (IF f.scalable THEN Pts(10) ELSE 0)
        + (IF f.testing THEN Pts(20) ELSE 0 - Pts(10)))

\* len(re.findall(r'^#+\s+', feat_content, re.MULTILINE)): the lines that
\* start with hashes followed by white space or by the end of a line that
\* is not the last
HeaderCount(lines) ==
    Cardinality({i \in 1..Len(lines) :
        /\ lines[i] # <<>>
        /\ Head(lines[i]) = "#"
        /\ IF DropHashes(lines[i]) = <<>> THEN i < Len(lines)
           ELSE IsSpace(Head(DropHashes(lines[i])))})

ClarityFeatures ==
    [lists : BOOLEAN, clear_language : BOOLEAN,
     avg_length : {0, 10, 25, 31}, incomplete : BOOLEAN]

\* lines 410-465
evaluate_clarity(f, lines) ==
    Clamp(Pts(50)
        + (IF HeaderCount(lines) >= 3 THEN Pts(20)
           ELSE IF HeaderCount(lines) >= 1 THEN Pts(10) ELSE 0 - Pts(20))
        + (IF f.lists THEN Pts(10) ELSE 0)
        + (IF f.clear_language THEN Pts(10) ELSE 0)
        + (IF 10 <= f.avg_length /\ f.avg_length <= 25 THEN Pts(10)
           ELSE IF f.avg_length > 30 THEN 0 - Pts(10) ELSE 0)
        + (IF f.incomplete THEN 0 - Pts(20) ELSE 0))

\* self.weights, lines 49-55, in hundredths
FeatWeights ==
    [structural_integrity |-> 30, implementation_detail |-> 25,
     language_specificity |-> 20, technical_accuracy |-> 15, clarity |-> 10]

\* lines 478-499: the criteria given the structural validation; with
\* structure_score a fraction over den, one is den * One
FeatureScore(structural_validation, den, feat_content, language) ==
    Score([structural_integrity  |-> structural_validation.structure_score.num * One,
           implementation_detail |-> den * evaluate_implementation_detail(feat_content.detail),
           language_specificity  |-> den * evaluate_language_specificity(feat_content.specificity, language),
           technical_accuracy    |-> den * evaluate_technical_accuracy(feat_content.accuracy),
           clarity               |-> den * evaluate_clarity(feat_content.clarity, feat_content.lines)],
          den * One, FeatWeights, structural_validation)

\* lines 467-532: structure_score is a fraction over 10 * len(expected_structure)
evaluate_feature(feat_content, expected_structure, language) ==
    FeatureScore(validate_structure(feat_content.lines, expected_structure),
                 10 * Max(1, Len(expected_structure)), feat_content, language)

\* a text without headers in which no check finds anything
BlankFeature ==
    [empty |-> FALSE,
     lines |-> << <<"t", "e", "x", "t">> >>,
     detail |-> [detail_count |-> 0, examples |-> "none", flow |-> FALSE,
                 edge_cases |-> FALSE, performance |-> FALSE],
     specificity |-> [mentions_specific |-> FALSE, positive_matches |-> 0,
                      negative_matches |-> 0, practice_matches |-> 0,
                      mentions_language |-> FALSE],
     accuracy |-> [tech_mentions |-> 0, arch_patterns |-> FALSE, security |-> FALSE,
                   scalable |-> FALSE, testing |-> FALSE],
     clarity |-> [lists |-> FALSE, clear_language |-> FALSE, avg_length |-> 0,
                  incomplete |-> FALSE]]

\* a text in which every check finds what it penalises and nothing else
PoorFeature ==
    [BlankFeature EXCEPT !.specificity.negative_matches = 1,
                         !.clarity.avg_length = 31,
                         !.clarity.incomplete = TRUE]

\* a text in which every check finds what it rewards
RichFeature ==
    [empty |-> FALSE,
     lines |-> << <<"t", "e", "x", "t">> >>,
     detail |-> [detail_count |-> 13, examples |-> "fence", flow |-> TRUE,
                 edge_cases |-> TRUE, performance |-> TRUE],
     specificity |-> [mentions_specific |-> TRUE, positive_matches |-> 7,
                      negative_matches |-> 0, practice_matches |-> 1,
                      mentions_language |-> TRUE],
     accuracy |-> [tech_mentions |-> 10, arch_patterns |-> TRUE, security |-> TRUE,
                   scalable |-> TRUE, testing |-> TRUE],
     clarity |-> [lists |-> TRUE, clear_language |-> TRUE, avg_length |-> 10,
                  incomplete |-> FALSE]]

\* '' (or a missing 'output')
NoFeature == [BlankFeature EXCEPT !.empty = TRUE, !.lines = <<>>]

\* the header lines feature specifications are given
FeatDocs ==
    UNION {[1..n -> {<<"#", " ", "O", "v", "e", "r", "v", "i", "e", "w">>,
                     <<"#", "#", " ", "2", ".", " ", "A", "P", "I">>,
                     <<"#", "#", "#", " ", "T", "e", "s", "t", "i", "n", "g">>}]
           : n \in 0..MaxLines}
    \cup {ManyHeaders}

\* feature specifications: the headers or one criterion's findings free,
\* the rest as in a poor or a rich text
FeatContents ==
    UNION {
        {[base EXCEPT !.lines = d] : d \in FeatDocs}
        \cup {[base EXCEPT !.detail = f] : f \in DetailFeatures}
        \cup {[base EXCEPT !.specificity = f] : f \in SpecificityFeatures}
        \cup {[base EXCEPT !.accuracy = f] : f \in AccuracyFeatures}
        \cup {[base EXCEPT !.clarity = f] : f \in ClarityFeatures}
        : base \in {PoorFeature, RichFeature}}

(***************************************************************************)
(* CodeEvaluator.  A candidate's files are reduced to the CodeQualityMetrics*)
(* analyze_code_files computes from them and to what                       *)
(* evaluate_project_structure looks up in the directory.                   *)
(***************************************************************************)
\* keys of CodeEvaluator.language_configs
CodeLanguages == {"go", "python", "rust", "javascript", "typescript"}
\* len(config['project_structure'])
ProjectStructureLen(language) == IF language \in {"python", "rust"} THEN 3 ELSE 4

QualityFeatures ==
    {m \in [total_files : 0..2, test_coverage_files : 0..2, syntax_errors : 0..2,
            code_smells : 0..4, complexity_score : {0, 5, 10, 11}] :
        m.test_coverage_files <= m.total_files}

\* faulty variant: the syntax errors are not looked at
evaluate_code_quality_IgnoresErrors(metrics) ==
    Clamp(Pts(50)
        + Pts(30)
        + (IF metrics.code_smells = 0 THEN Pts(20)
           ELSE IF metrics.code_smells < 2 * Max(1, metrics.total_files) THEN Pts(10)
           ELSE 0 - Pts(20))
        + (IF metrics.complexity_score <= 5 THEN Pts(10)
           ELSE IF metrics.complexity_score <= 10 THEN 0 ELSE 0 - Pts(10)))
\* lines 332-368: smell_ratio = len(code_smells) / max(1, total_files)
evaluate_code_quality(metrics) ==
    Clamp(Pts(50)
        + (IF metrics.syntax_errors = 0 THEN Pts(30) ELSE 0 - Pts(40))
        + (IF metrics.code_smells = 0 THEN Pts(20)
           ELSE IF metrics.code_smells < 2 * Max(1, metrics.total_files) THEN Pts(10)
           ELSE 0 - Pts(20))
        + (IF metrics.complexity_score <= 5 THEN Pts(10)
           ELSE IF metrics.complexity_score <= 10 THEN 0 ELSE 0 - Pts(10)))

\* lines 370-397: coverage_ratio = test_coverage_files / total_files
evaluate_test_coverage(metrics) ==
    IF metrics.total_files = 0 THEN 0
    ELSE IF metrics.test_coverage_files * 10 >= metrics.total_files * 8 THEN Pts(100)
    ELSE IF metrics.test_coverage_files * 10 >= metrics.total_files * 6 THEN Pts(80)
    ELSE IF metrics.test_coverage_files * 10 >= metrics.total_files * 3 THEN Pts(50)
    ELSE IF metrics.test_coverage_files > 0 THEN Pts(20)
    ELSE 0

LayoutFeatures ==
    [has_documentation : BOOLEAN, has_build_config : BOOLEAN,
     found_dirs : 0..4, has_main : BOOLEAN]

\* lines 399-441: structure_ratio = found_dirs / len(expected_structure)
evaluate_project_structure(f, language) ==
    IF language \notin CodeLanguages THEN Pts(50)
    ELSE Clamp(Pts(50)
            + (IF f.found_dirs * 10 >= ProjectStructureLen(language) * 8 THEN Pts(30)
               ELSE IF f.found_dirs * 10 >= ProjectStructureLen(language) * 5 THEN Pts(10)
               ELSE 0 - Pts(20))
            + (IF f.has_main THEN Pts(10) ELSE 0 - Pts(10)))

\* self.weights, lines 54-61, in hundredths
CodeWeights ==
    [code_quality |-> 25, test_coverage |-> 20, documentation |-> 15,
     project_structure |-> 15, language_idioms |-> 15, build_readiness |-> 10]

\* lines 443-517: the criteria and overall_score of a CodeScore
evaluate_code(code, language) ==
    Score([code_quality      |-> evaluate_code_quality(code.metrics),
           test_coverage     |-> evaluate_test_coverage(code.metrics),
           documentation     |-> IF code.layout.has_documentation THEN One ELSE 0,
           project_structure |-> evaluate_project_structure(code.layout, language),
           language_idioms   |-> Pts(70),
           build_readiness   |-> IF code.layout.has_build_config THEN One ELSE 0],
          One, CodeWeights, NoValidation)

\* output_files == {}: no source file, no directory
NoCode ==
    [empty |-> TRUE,
     metrics |-> [total_files |-> 0, test_coverage_files |-> 0, syntax_errors |-> 0,
                  code_smells |-> 0, complexity_score |-> 0],
     layout |-> [has_documentation |-> FALSE, has_build_config |-> FALSE,
                 found_dirs |-> 0, has_main |-> FALSE]]

\* files in which every check finds what it penalises
PoorCode ==
    [empty |-> FALSE,
     metrics |-> [total_files |-> 1, test_coverage_files |-> 0, syntax_errors |-> 1,
                  code_smells |-> 4, complexity_score |-> 11],
     layout |-> [has_documentation |-> FALSE, has_build_config |-> FALSE,
                 found_dirs |-> 0, has_main |-> FALSE]]

\* files in which every check finds what it rewards
RichCode ==
    [empty |-> FALSE,
     metrics |-> [total_files |-> 2, test_coverage_files |-> 2, syntax_errors |-> 0,
                  code_smells |-> 0, complexity_score |-> 0],
     layout |-> [has_documentation |-> TRUE, has_build_config |-> TRUE,
                 found_dirs |-> 4, has_main |-> TRUE]]

\* code candidates: the metrics or the layout free, the rest poor or rich
CodeContents ==
    UNION {
        {[base EXCEPT !.metrics = m] : m \in QualityFeatures}
        \cup {[base EXCEPT !.layout = f] : f \in LayoutFeatures}
        : base \in {PoorCode, RichCode}}

(***************************************************************************)
(* rank_designs / rank_features / rank_code                                *)
(***************************************************************************)
\* faulty variant: an invalid structure costs a tenth of the score range
structure_penalty_Tenth(is_valid, one) == IF is_valid THEN 0 ELSE 0 - (one \div 10)
\* feat_evaluator.py line 560: 0 if is_valid else -1.0, 'one' being the score 1.0
structure_penalty(is_valid, one) == IF is_valid THEN 0 ELSE 0 - one

\* sort_key of rank_features (lines 557-561); overall_score for designs and
\* code.  The scores of one ranking pass are fractions over the same denominator.
sort_key(kind, score) ==
    IF kind = "feat"
    THEN score.overall_score.num + structure_penalty(score.is_valid, score.overall_score.den)
    ELSE score.overall_score.num

\* evaluate_design / evaluate_feature / evaluate_code as rank_* calls them
Evaluate(kind, content, expected, language) ==
    CASE kind = "design" -> evaluate_design(content, language)
      [] kind = "feat"   -> evaluate_feature(content, expected, language)
      [] kind = "code"   -> evaluate_code(content, language)

RECURSIVE ScoredCandidates_ValidOnly(_, _, _, _, _)
\* faulty variant: a feature specification with an invalid structure is dropped
ScoredCandidates_ValidOnly(kind, cands, expected, language, n) ==
    IF n = 0 THEN <<>>
    ELSE LET rest == ScoredCandidates_ValidOnly(kind, cands, expected, language, n - 1)
         IN  IF (kind # "code" /\ cands[n].empty)
                \/ (kind = "feat" /\ ~validate_structure(cands[n].lines, expected).is_valid)
             THEN rest
             ELSE Append(rest, [index |-> n - 1,
                                score |-> Evaluate(kind, cands[n], expected, language)])

RECURSIVE ScoredCandidates(_, _, _, _, _)
\* the scoring loop over enumerate(candidates), first n candidates:
\* rank_designs and rank_features score a candidate only "if content"
ScoredCandidates(kind, cands, expected, language, n) ==
    IF n = 0 THEN <<>>
    ELSE LET rest == ScoredCandidates(kind, cands, expected, language, n - 1)
         IN  IF kind # "code" /\ cands[n].empty
             THEN rest
             ELSE Append(rest, [index |-> n - 1,
                                score |-> Evaluate(kind, cands[n], expected, language)])

RECURSIVE InsertRanked(_, _, _)
\* x goes behind every entry whose sort key is at least its own
InsertRanked(kind, s, x) ==
    IF s = <<>> THEN <<x>>
    ELSE IF sort_key(kind, Head(s).score) >= sort_key(kind, x.score)
         THEN <<Head(s)>> \o InsertRanked(kind, Tail(s), x)
         ELSE <<x>> \o s

RECURSIVE SortRanked(_, _)
\* scored.sort(key=..., reverse=True)
SortRanked(kind, s) ==
    IF s = <<>> THEN <<>>
    ELSE InsertRanked(kind, SortRanked(kind, SubSeq(s, 1, Len(s) - 1)), s[Len(s)])

(***************************************************************************)
(* SpecEval: one call of evaluate_* or rank_*                              *)
(***************************************************************************)
\* the candidates handed to a ranking pass
RankedDesigns == {NoDesign, BlankDesign, PoorDesign, RichDesign}
RankedFeatures ==
    {NoFeature} \cup
    {[base EXCEPT !.lines = d] :
        base \in {PoorFeature, RichFeature},
        d \in {SubSeq(<< <<"#", " ", "O", "v", "e", "r", "v", "i", "e", "w">>,
                         <<"#", "#", " ", "2", ".", " ", "A", "P", "I">>,
                         <<"#", "#", "#", " ", "T", "e", "s", "t", "i", "n", "g">> >>, 1, n)
               : n \in 1..3}}
RankedCode == {NoCode, PoorCode, RichCode, [RichCode EXCEPT !.metrics.syntax_errors = 1]}

RankedContents(kind) ==
    CASE kind = "design" -> RankedDesigns
      [] kind = "feat"   -> RankedFeatures
      [] kind = "code"   -> RankedCode

CandidateLists(kind) == UNION {[1..n -> RankedContents(kind)] : n \in 0..MaxCandidates}

EvalIdle ==
    /\ ev_pc = "start"
    /\ ev_kind = "design"
    /\ ev_language = "None"
    /\ ev_expected = <<>>
    /\ ev_candidates = <<>>
    /\ ev_scored = <<>>

EvalInit ==
    /\ ev_pc = "start"
    /\ ev_kind \in {"design", "feat", "code"}
    /\ ev_language \in (IF ev_kind = "code" THEN CodeLanguages \cup {"cobol"} ELSE Languages)
    /\ ev_expected \in (IF ev_kind = "feat"
                        THEN {<<>>, <<Overview>>, <<Overview, Api>>}
                        ELSE {<<>>})
    /\ ev_candidates = <<>>
    /\ ev_scored = <<>>

\* the contents evaluate_design / evaluate_feature / evaluate_code are given
EvaluatedContents(kind) ==
    CASE kind = "design" -> DesignContents
      [] kind = "feat"   -> FeatContents
      [] kind = "code"   -> CodeContents

\* one call of evaluate_design / evaluate_feature / evaluate_code
EvaluateOne(kind) ==
    /\ ev_pc = "start"
    /\ ev_kind = kind
    /\ \E content \in EvaluatedContents(ev_kind) :
        /\ ev_candidates' = <<content>>
        /\ ev_scored' = <<[index |-> 0,
                           score |-> Evaluate(kind, content, ev_expected, ev_language)]>>
    /\ ev_pc' = "evaluated"
    /\ UNCHANGED <<ev_kind, ev_language, ev_expected>>

EvaluateDesign == EvaluateOne("design")
EvaluateFeature == EvaluateOne("feat")
EvaluateCode == EvaluateOne("code")

\* the sort and the log line that reads scored[0], which raises IndexError
\* when nothing was scored
SortAndLog(kind, scored) ==
    IF scored = <<>>
    THEN ev_scored' = <<>> /\ ev_pc' = "raised"
    ELSE ev_scored' = SortRanked(kind, scored) /\ ev_pc' = "ranked"

\* one call of rank_*: the scoring loop, the sort, the log line
RankAll(kind) ==
    /\ ev_pc = "start"
    /\ ev_kind = kind
    /\ \E cands \in CandidateLists(ev_kind) :
        /\ ev_candidates' = cands
        /\ SortAndLog(kind, ScoredCandidates(kind, cands, ev_expected, ev_language, Len(cands)))
    /\ UNCHANGED <<ev_kind, ev_language, ev_expected>>

\* design_evaluator.py lines 500-528
rank_designs == RankAll("design")
\* feat_evaluator.py lines 534-570
rank_features == RankAll("feat")
\* code_evaluator.py lines 519-562
rank_code == RankAll("code")

EvalNext ==
    \/ EvaluateDesign
    \/ EvaluateFeature
    \/ EvaluateCode
    \/ rank_designs
    \/ rank_features
    \/ rank_code

(***************************************************************************)
(* Claims about the evaluators (SpecEval)                                  *)
(***************************************************************************)
\* the declared weights of the evaluator in use
Weights(kind) ==
    CASE kind = "design" -> DesignWeights
      [] kind = "feat"   -> FeatWeights
      [] kind = "code"   -> CodeWeights

\* sum(weights.values())
WeightTotal(weights) == WeightedSum([c \in DOMAIN weights |-> 1], weights)

\* the numerators of a score's criteria
Numerators(score) == [c \in DOMAIN score.criteria |-> score.criteria[c].num]

\* the scores a finished call returned
ReturnedScores ==
    IF ev_pc \in {"evaluated", "ranked"}
    THEN {ev_scored[k].score : k \in 1..Len(ev_scored)}
    ELSE {}

\* C11: rank_features places every candidate whose structural validation has
\* is_valid = false after every candidate with is_valid = true, whatever their
\* overall scores and their submission order.
C11_InvalidRankedAfterValid ==
    (ev_pc = "ranked" /\ ev_kind = "feat") =>
        \A a, b \in 1..Len(ev_scored) :
            (ev_scored[a].score.is_valid /\ ~ev_scored[b].score.is_valid) => a < b

\* an invalid candidate submitted first and scoring higher overall is ranked
\* behind a valid one
C11_Witness ==
    /\ ev_pc = "ranked"
    /\ ev_kind = "feat"
    /\ \E a, b \in 1..Len(ev_scored) :
        /\ a < b
        /\ ev_scored[a].score.is_valid
        /\ ~ev_scored[b].score.is_valid
        /\ ev_scored[b].index < ev_scored[a].index
        /\ ev_scored[b].score.overall_score.num > ev_scored[a].score.overall_score.num

\* C13: rank_designs and rank_features do not raise for a candidate list in
\* which some or all candidates have empty or missing content, and each such
\* candidate appears in the ranked list with score 0 on every criterion.
C13_EmptyCandidatesRanked ==
    (ev_kind \in {"design", "feat"} /\ ev_pc \in {"ranked", "raised"} /\ ev_candidates # <<>>) =>
        /\ ev_pc # "raised"
        /\ \A n \in 1..Len(ev_candidates) :
            ev_candidates[n].empty =>
                \E k \in 1..Len(ev_scored) :
                    /\ ev_scored[k].index = n - 1
                    /\ \A c \in DOMAIN ev_scored[k].score.criteria :
                        ev_scored[k].score.criteria[c].num = 0

\* C18: every criterion score of evaluate_design, evaluate_feature and
\* evaluate_code lies in [0,1], overall_score is the sum of the criteria
\* weighted with the evaluator's declared weights, the weights sum to 1.0,
\* and overall_score lies in [0,1].
C18_ScoresWithinUnitInterval ==
    /\ WeightTotal(Weights(ev_kind)) = 100
    /\ \A score \in ReturnedScores :
        /\ DOMAIN score.criteria = DOMAIN Weights(ev_kind)
        /\ \A c \in DOMAIN score.criteria :
            /\ 0 <= score.criteria[c].num
            /\ score.criteria[c].num <= score.criteria[c].den
            /\ score.overall_score.den = 100 * score.criteria[c].den
        /\ score.overall_score.num = WeightedSum(Numerators(score), Weights(ev_kind))
        /\ 0 <= score.overall_score.num
        /\ score.overall_score.num <= score.overall_score.den

\* a design whose checks push one criterion above 1.0 and another below 0.0
\* before the clamp
C18_Witness ==
    /\ ev_pc = "evaluated"
    /\ ev_kind = "design"
    /\ ev_candidates[1].architecture = RichDesign.architecture
    /\ ev_candidates[1].completeness = PoorDesign.completeness
    /\ \E score \in ReturnedScores :
        /\ score.criteria.architecture.num = score.criteria.architecture.den
        /\ score.criteria.completeness.num = 0
        /\ 0 < score.overall_score.num
        /\ score.overall_score.num < score.overall_score.den

\* the entries of the returned list that stand for candidate n (counted from 1)
EntriesFor(n) == {k \in 1..Len(ev_scored) : ev_scored[k].index = n - 1}

\* C23: rank_features returns exactly one entry for every candidate with
\* non-empty content, structurally invalid ones included, and the entry shows
\* the candidate's is_valid and its missing sections.
C23_InvalidCandidatesStayRanked ==
    (ev_kind = "feat" /\ ev_pc \in {"ranked", "raised"}
        /\ \E n \in 1..Len(ev_candidates) : ~ev_candidates[n].empty) =>
        /\ ev_pc = "ranked"
        /\ \A n \in 1..Len(ev_candidates) :
            ~ev_candidates[n].empty =>
                /\ Cardinality(EntriesFor(n)) = 1
                /\ \A k \in EntriesFor(n) :
                    /\ ev_scored[k].score.structural_validation.missing_sections
                         = Range(ev_expected) \ Range(extract_section_structure(ev_candidates[n].lines))
                    /\ ev_scored[k].score.structural_validation.is_valid
                         = (ev_scored[k].score.structural_validation.missing_sections = {})
                    /\ ev_scored[k].score.is_valid
                         = ev_scored[k].score.structural_validation.is_valid

\* a ranked list that holds a candidate with a missing section next to a
\* valid one
C23_Witness ==
    /\ ev_kind = "feat"
    /\ ev_pc = "ranked"
    /\ Len(ev_scored) = Len(ev_candidates)
    /\ \E a, b \in 1..Len(ev_scored) :
        /\ ev_scored[a].score.is_valid
        /\ ~ev_scored[b].score.is_valid
        /\ ev_scored[b].score.structural_validation.missing_sections # {}

\* C24: rank_code returns an entry for every candidate, those with syntax
\* errors included, and a candidate with a syntax error gets a strictly lower
\* code_quality than the same smell and complexity metrics get without one.
C24_SyntaxErrorsLowerQuality ==
    (ev_kind = "code" /\ ev_pc \in {"ranked", "evaluated"}) =>
        /\ \A n \in 1..Len(ev_candidates) : Cardinality(EntriesFor(n)) = 1
        /\ \A k \in 1..Len(ev_scored) :
            ev_candidates[ev_scored[k].index + 1].metrics.syntax_errors >= 1 =>
                ev_scored[k].score.criteria.code_quality.num
                    < evaluate_code_quality(
                        [ev_candidates[ev_scored[k].index + 1].metrics
                            EXCEPT !.syntax_errors = 0])

\* a ranked list in which the same files with a syntax error stand behind
\* those without
C24_Witness ==
    /\ ev_kind = "code"
    /\ ev_pc = "ranked"
    /\ \E a, b \in 1..Len(ev_scored) :
        /\ a < b
        /\ ev_candidates[ev_scored[a].index + 1] = RichCode
        /\ ev_candidates[ev_scored[b].index + 1] = [RichCode EXCEPT !.metrics.syntax_errors = 1]
        /\ ev_scored[b].score.criteria.code_quality.num
            < ev_scored[a].score.criteria.code_quality.num

(***************************************************************************)
(* AgentRegistry.record_agent_invocation (SpecRegistry)                    *)
(*                                                                         *)
(* success_rate and avg_response_time are exact fractions; last_success    *)
(* and last_failure hold the number of the call that set them, 0 for None. *)
(***************************************************************************)
\* the agents whose invocations are recorded
RecordedAgents == {"gad", "rad"}
\* the response_time argument
ResponseTimes == {0, 5}
\* the error_msg argument, "None" for None
ErrorMsgs == {"None", "boom"}

\* s[-n:]
LastN(s, n) == IF Len(s) <= n THEN s ELSE SubSeq(s, Len(s) - n + 1, Len(s))

\* lines 275-284: the AgentHealth a first invocation creates
NewHealth(agent_name) ==
    [agent_name |-> agent_name,
     success_rate |-> Ratio(0, 1),
     avg_response_time |-> Ratio(0, 1),
     last_success |-> 0,
     last_failure |-> 0,
     total_invocations |-> 0,
     recent_failures |-> <<>>]

\* faulty variant: the average is never seeded with the sample
RollingAverage_NoSeed(avg, response_time) ==
    Ratio(4 * avg.num + response_time * avg.den, 5 * avg.den)
\* lines 289-293: the first non-zero response time is taken as it is, later
\* ones enter with weight 0.2
RollingAverage(avg, response_time) ==
    IF avg.num = 0
    THEN Ratio(response_time, 1)
    ELSE Ratio(4 * avg.num + response_time * avg.den, 5 * avg.den)

\* lines 304-309: current_successes = total_invocations * success_rate with
\* the count already incremented, plus one on success, over the count
SuccessRate(rate, total, success) ==
    Ratio(total * rate.num + (IF success THEN rate.den ELSE 0), rate.den * total)

\* lines 272-309 on the AgentHealth 'health' at time 'now'
Recorded(health, success, response_time, error_msg, now) ==
    LET total == health.total_invocations + 1
    IN  [agent_name |-> health.agent_name,
         success_rate |-> SuccessRate(health.success_rate, total, success),
         avg_response_time |-> RollingAverage(health.avg_response_time, response_time),
         last_success |-> IF success THEN now ELSE health.last_success,
         last_failure |-> IF success THEN health.last_failure ELSE now,
         total_invocations |-> total,
         recent_failures |->
             IF ~success /\ error_msg # "None"
             THEN LastN(Append(health.recent_failures, error_msg), 5)
             ELSE health.recent_failures]

\* faulty variant: the stored AgentHealth is not looked up
HealthOf_AlwaysNew(metrics, agent_name) == NewHealth(agent_name)
\* lines 275-286: the stored AgentHealth, created on the first invocation
HealthOf(metrics, agent_name) ==
    IF agent_name \in DOMAIN metrics THEN metrics[agent_name] ELSE NewHealth(agent_name)

RegIdle ==
    /\ health_metrics = [n \in {} |-> NewHealth(n)]
    /\ rg_clock = 0
    /\ rg_successes = [n \in RecordedAgents |-> 0]
    /\ rg_calls = [n \in RecordedAgents |-> 0]
    /\ rg_history = <<>>

RegInit == RegIdle

\* One call.  The method is a plain def without an await, so under asyncio a
\* call made by one orchestration round runs to its end before a call of
\* another round starts: concurrent rounds interleave whole calls.
record_agent_invocation(agent_name, success, response_time, error_msg) ==
    /\ rg_clock < MaxCalls
    /\ health_metrics' =
          [n \in DOMAIN health_metrics \cup {agent_name} |->
              IF n = agent_name
              THEN Recorded(HealthOf(health_metrics, agent_name), success,
                            response_time, error_msg, rg_clock + 1)
              ELSE health_metrics[n]]
    /\ rg_clock' = rg_clock + 1
    /\ rg_calls' = [rg_calls EXCEPT ![agent_name] = @ + 1]
    /\ rg_successes' = [rg_successes EXCEPT ![agent_name] = @ + (IF success THEN 1 ELSE 0)]
    /\ rg_history' = Append(rg_history,
                            [agent_name |-> agent_name, success |-> success,
                             response_time |-> response_time, error_msg |-> error_msg])

RegNext ==
    \E agent_name \in RecordedAgents, success \in BOOLEAN,
       response_time \in ResponseTimes, error_msg \in ErrorMsgs :
        record_agent_invocation(agent_name, success, response_time, error_msg)

\* C19: after any sequence of record_agent_invocation calls for an agent, its
\* success_rate equals the number of those calls with success = true divided
\* by the number of those calls.
C19_SuccessRateIsSuccessesOverTotal ==
    \A n \in DOMAIN health_metrics :
        health_metrics[n].success_rate.num * rg_calls[n]
            = rg_successes[n] * health_metrics[n].success_rate.den

\* the call that has just run, and the average it found
LastCall == rg_history'[Len(rg_history')]
OldAverage == HealthOf(health_metrics, LastCall.agent_name).avg_response_time
NewAverage == health_metrics'[LastCall.agent_name].avg_response_time

\* a = b * 0.8 + response_time * 0.2, as fractions
IsWeightedAverage(a, b, response_time) ==
    a.num * (5 * b.den) = (4 * b.num + response_time * b.den) * a.den

\* C25 as stated: every call sets avg_response_time to
\* old_avg * 0.8 + response_time * 0.2.
C25_AverageAlwaysWeighted ==
    [][rg_clock' # rg_clock =>
          IsWeightedAverage(NewAverage, OldAverage, LastCall.response_time)]_vars

\* C25: a call that finds avg_response_time at 0 (a new agent, or samples of
\* 0 only) sets it to response_time; every other call sets it to
\* old_avg * 0.8 + response_time * 0.2.
C25_AverageSeededThenWeighted ==
    [][rg_clock' # rg_clock =>
          IF OldAverage.num = 0
          THEN NewAverage.num = LastCall.response_time * NewAverage.den
          ELSE IsWeightedAverage(NewAverage, OldAverage, LastCall.response_time)]_vars

\* an agent was recorded with a non-zero sample and then again, with a
\* different sample
C25_Witness ==
    \E a, b \in 1..Len(rg_history) :
        /\ a < b
        /\ rg_history[a].agent_name = rg_history[b].agent_name
        /\ rg_history[a].response_time # 0
        /\ rg_history[b].response_time # rg_history[a].response_time
        /\ health_metrics[rg_history[a].agent_name].avg_response_time.den > 1

\* the calls recorded for agent n, in the order they ran
CallsFor(n) == SelectSeq(rg_history, LAMBDA c : c.agent_name = n)
\* the error messages those calls passed with a failure
FailureMsgs(n) ==
    LET failed == SelectSeq(rg_history,
                     LAMBDA c : c.agent_name = n /\ ~c.success /\ c.error_msg # "None")
    IN  [k \in 1..Len(failed) |-> failed[k].error_msg]
\* the number of the last call for n with the given outcome, 0 if none
LastWith(n, success) ==
    LET S == {k \in 1..Len(rg_history) :
                 rg_history[k].agent_name = n /\ rg_history[k].success = success}
    IN  IF S = {} THEN 0 ELSE CHOOSE k \in S : \A j \in S : j <= k

\* C26: when concurrent rounds record invocations on one registry no update
\* is lost: each agent's total_invocations is the number of calls made for
\* it, and its failure messages and its last success and failure are those of
\* the calls in the order they ran.
C26_NoLostUpdate ==
    /\ DOMAIN health_metrics = {n \in RecordedAgents : Len(CallsFor(n)) > 0}
    /\ \A n \in DOMAIN health_metrics :
        /\ health_metrics[n].total_invocations = Len(CallsFor(n))
        /\ health_metrics[n].recent_failures = LastN(FailureMsgs(n), 5)
        /\ health_metrics[n].last_success = LastWith(n, TRUE)
        /\ health_metrics[n].last_failure = LastWith(n, FALSE)

\* the calls for two agents were interleaved
C26_Witness ==
    /\ Len(rg_history) >= 3
    /\ rg_history[1].agent_name = rg_history[3].agent_name
    /\ rg_history[2].agent_name # rg_history[1].agent_name
    /\ ~rg_history[1].success /\ rg_history[1].error_msg # "None"
    /\ health_metrics[rg_history[1].agent_name].total_invocations >= 2

\* C28: after any sequence of record_agent_invocation calls every agent's
\* success_rate lies in [0,1].
C28_SuccessRateWithinUnitInterval ==
    \A n \in DOMAIN health_metrics :
        /\ 0 <= health_metrics[n].success_rate.num
        /\ health_metrics[n].success_rate.num <= health_metrics[n].success_rate.den

(***************************************************************************)
(* SpecWorkspace: the files of one task's workspace and the output_files   *)
(* its AgentResult carries                                                 *)
(*                                                                         *)
(* A file is its path relative to the workspace, its name (the last path   *)
(* component), who wrote it and whether it decodes as UTF-8.               *)
(***************************************************************************)
File(path, name, origin, text) ==
    [path |-> path, name |-> name, origin |-> origin, text |-> text]

\* task_dir / "prompt.txt", lines 154-156
PromptFile == File("prompt.txt", "prompt.txt", "prompt", TRUE)
\* the input_files a task may carry (orchestrate_feature hands app.md)
InputNames == {"app.md", "feat.md"}
\* what a worker may write: a text file, a binary file, and a file that is
\* called prompt.txt in a subdirectory
WorkerFiles ==
    {File("out.md", "out.md", "worker", TRUE),
     File("out.bin", "out.bin", "worker", FALSE),
     File("sub/prompt.txt", "prompt.txt", "worker", TRUE)}

\* output_files of an AgentResult: None, or a dictionary keyed by these paths
NoOutputFiles == [none |-> TRUE, paths |-> {}]

\* lines 212-221: every file under task_dir whose name is not prompt.txt,
\* read as UTF-8; a file that does not decode is passed over
CollectedFiles(files) ==
    [none |-> FALSE,
     paths |-> {f.path : f \in {g \in files : g.name # "prompt.txt" /\ g.text}}]

WsIdle ==
    /\ ws_pc = "start"
    /\ ws_input = {}
    /\ ws_files = {}
    /\ ws_returncode = 0
    /\ ws_result = [success |-> FALSE, output_files |-> NoOutputFiles]

WsInit ==
    /\ ws_pc = "start"
    /\ ws_input \in SUBSET InputNames
    /\ ws_files = {}
    /\ ws_returncode = 0
    /\ ws_result = [success |-> FALSE, output_files |-> NoOutputFiles]

\* _create_task_workspace, lines 143-158
CreateTaskWorkspace ==
    /\ ws_pc = "start"
    /\ ws_files' = {File(n, n, "input", TRUE) : n \in ws_input} \cup {PromptFile}
    /\ ws_pc' = "created"
    /\ UNCHANGED <<ws_input, ws_returncode, ws_result>>

\* create_subprocess_exec succeeds, lines 189-196
WsSpawned ==
    /\ ws_pc = "created"
    /\ ws_pc' = "running"
    /\ UNCHANGED <<ws_input, ws_files, ws_returncode, ws_result>>

\* the worker writes a file into its working directory
WorkerWrites ==
    /\ ws_pc = "running"
    /\ \E f \in WorkerFiles \ ws_files : ws_files' = ws_files \cup {f}
    /\ UNCHANGED <<ws_pc, ws_input, ws_returncode, ws_result>>

\* the worker exits
WorkerExits ==
    /\ ws_pc = "running"
    /\ \E rc \in {0, 1} : ws_returncode' = rc
    /\ ws_pc' = "exited"
    /\ UNCHANGED <<ws_input, ws_files, ws_result>>

\* lines 198-248: communicate() returned, the files are collected and the
\* result is built
WsCompleted ==
    /\ ws_pc = "exited"
    /\ ws_result' = [success |-> ws_returncode = 0,
                     output_files |-> CollectedFiles(ws_files)]
    /\ ws_pc' = "returned"
    /\ UNCHANGED <<ws_input, ws_files, ws_returncode>>

\* lines 203-206 and 250-262: the timeout elapses (the worker is killed), or
\* create_subprocess_exec raises; the handler builds the result without
\* output_files
WsException ==
    /\ ws_pc \in {"created", "running"}
    /\ ws_result' = [success |-> FALSE, output_files |-> NoOutputFiles]
    /\ ws_returncode' = IF ws_pc = "running" THEN -9 ELSE ws_returncode
    /\ ws_pc' = "returned"
    /\ UNCHANGED <<ws_input, ws_files>>

WsNext ==
    \/ CreateTaskWorkspace
    \/ WsSpawned
    \/ WorkerWrites
    \/ WorkerExits
    \/ WsCompleted
    \/ WsException

\* the text files the worker newly wrote
NewTextFiles == {f.path : f \in {g \in ws_files : g.origin = "worker" /\ g.text}}

\* C21: the outcome of every task, failed ones included, carries in
\* output_files exactly the text files the worker newly wrote into its
\* workspace: neither the prompt file nor the input files, and no file that
\* does not decode.
C21_OutputFilesAreWorkerTextFiles ==
    ws_pc = "returned" =>
        /\ ~ws_result.output_files.none
        /\ ws_result.output_files.paths = NewTextFiles

(***************************************************************************)
(* cleanup() called while a batch is in flight (SpecCleanup)               *)
(* orchestration_engine.py:123-141 against the tasks' lines 196-208.       *)
(* A step is what one coroutine does between two awaits.  The dictionary   *)
(* iterator of the for loop remembers the size of the dictionary when it   *)
(* was created and its position in the insertion order; every advance      *)
(* first compares the size and raises RuntimeError when it changed.        *)
(***************************************************************************)
\* processes of the batch on which cleanup() is called
MaxProcs == 3

CuProcs == 1..cu_n

\* the loop of cleanup() from one advance of the iterator to its next await,
\* lines 126-134: RuntimeError when the size changed, the end of the loop when
\* no entry is left after pos, terminate() and the await for a process whose
\* returncode is None, the next entry otherwise
RECURSIVE CleanupLoop(_, _, _, _, _)
CleanupLoop(active, used, pos, procs, visited) ==
    IF Cardinality(active) # used
    THEN [pc |-> "raised", pos |-> pos, visited |-> visited]
    ELSE IF \A k \in active : k <= pos
         THEN [pc |-> "cleared", pos |-> pos, visited |-> visited]
         ELSE LET k == CHOOSE k \in active : k > pos /\ \A j \in active : j > pos => k <= j
              IN  IF procs[k] = "running"
                  THEN [pc |-> "waiting", pos |-> k, visited |-> visited \cup {k}]
                  ELSE CleanupLoop(active, used, k, procs, visited \cup {k})

CuIdle ==
    /\ cu_n = 0
    /\ cu_pc = "idle"
    /\ cu_active = {}
    /\ cu_proc = <<>>
    /\ cu_task = <<>>
    /\ cu_used = 0
    /\ cu_pos = 0
    /\ cu_at_call = {}
    /\ cu_visited = {}
    /\ cu_temp_dir = "none"

\* a batch whose tasks have all registered their process (line 196) and wait
\* in communicate() (line 199)
CuInit ==
    /\ cu_n \in 1..MaxProcs
    /\ cu_pc = "idle"
    /\ cu_active = 1..cu_n
    /\ cu_proc = [i \in 1..cu_n |-> "running"]
    /\ cu_task = [i \in 1..cu_n |-> "communicate"]
    /\ cu_used = 0
    /\ cu_pos = 0
    /\ cu_at_call = {}
    /\ cu_visited = {}
    /\ cu_temp_dir = "created"

\* what follows the loop: lines 136-141, or the RuntimeError leaving cleanup()
AfterLoop(r) ==
    /\ cu_pc' = IF r.pc = "cleared" THEN "done" ELSE r.pc
    /\ cu_pos' = r.pos
    /\ cu_visited' = r.visited
    /\ cu_active' = IF r.pc = "cleared" THEN {} ELSE cu_active
    /\ cu_temp_dir' = IF r.pc = "cleared" THEN "removed" ELSE cu_temp_dir

\* cleanup() is called: the iterator is created and the loop runs to its
\* first await
cleanup ==
    /\ cu_pc = "idle"
    /\ cu_used' = Cardinality(cu_active)
    /\ cu_at_call' = cu_active
    /\ AfterLoop(CleanupLoop(cu_active, Cardinality(cu_active), 0, cu_proc, {}))
    /\ UNCHANGED <<cu_n, cu_proc, cu_task>>

\* a worker ends, by itself or by the SIGTERM of terminate()
WorkerEnds(i) ==
    /\ cu_proc[i] = "running"
    /\ cu_proc' = [cu_proc EXCEPT ![i] = "exited"]
    /\ UNCHANGED <<cu_n, cu_pc, cu_active, cu_task, cu_used, cu_pos, cu_at_call,
                   cu_visited, cu_temp_dir>>

\* the task of an ended worker resumes from communicate(): the finally of
\* line 207 pops its entry
TaskPopsEntry(i) ==
    /\ cu_task[i] = "communicate"
    /\ cu_proc[i] = "exited"
    /\ cu_task' = [cu_task EXCEPT ![i] = "finished"]
    /\ cu_active' = cu_active \ {i}
    /\ UNCHANGED <<cu_n, cu_pc, cu_proc, cu_used, cu_pos, cu_at_call, cu_visited,
                   cu_temp_dir>>

\* process.wait() returned within 5 seconds (line 131): the loop goes on
WaitReturned ==
    /\ cu_pc = "waiting"
    /\ cu_proc[cu_pos] = "exited"
    /\ AfterLoop(CleanupLoop(cu_active, cu_used, cu_pos, cu_proc, cu_visited))
    /\ UNCHANGED <<cu_n, cu_proc, cu_task, cu_used, cu_at_call>>

\* asyncio.TimeoutError (lines 132-134): kill() and the loop goes on
WaitTimedOut ==
    /\ cu_pc = "waiting"
    /\ cu_proc[cu_pos] = "running"
    /\ cu_proc' = [cu_proc EXCEPT ![cu_pos] = "exited"]
    /\ AfterLoop(CleanupLoop(cu_active, cu_used, cu_pos, cu_proc', cu_visited))
    /\ UNCHANGED <<cu_n, cu_task, cu_used, cu_at_call>>

CuNext ==
    \/ cleanup
    \/ \E i \in CuProcs : WorkerEnds(i)
    \/ \E i \in CuProcs : TaskPopsEntry(i)
    \/ WaitReturned
    \/ WaitTimedOut

\* C27
\* cleanup() called while tasks are in flight ends without an error, having
\* visited every process that was active at the call, with active_processes
\* empty, whatever tasks pop their entry during its awaits.
C27_CleanupToleratesFinishingTasks ==
    cu_pc \in {"done", "raised"} =>
        /\ cu_pc = "done"
        /\ cu_visited = cu_at_call
        /\ cu_active = {}

(***************************************************************************)
(* orchestrate_design / orchestrate_feature / orchestrate_development      *)
(* (SpecOrchestration), orchestration_engine.py:307-510: the batch is      *)
(* built, its tasks end in any order, gather returns their outcomes in     *)
(* submission order and the first successful one is selected.              *)
(***************************************************************************)
\* selected_result = None
NoSelection == [agent_name |-> "None", task_id |-> <<>>, success |-> FALSE]

\* the OrchestrationResult before the call returns
NoOrchestrationResult ==
    [task_type |-> "None", success |-> FALSE, selected_result |-> NoSelection,
     all_results |-> <<>>]

\* faulty variant: the loop has no break, the last successful result stays selected
RECURSIVE FirstSuccessful_NoBreak(_, _)
FirstSuccessful_NoBreak(results, k) ==
    IF k > Len(results) THEN NoSelection
    ELSE LET rest == FirstSuccessful_NoBreak(results, k + 1)
         IN  IF rest # NoSelection THEN rest
             ELSE IF results[k].success THEN results[k] ELSE NoSelection

\* selected_result = None; for result in results: if result.success:
\* selected_result = result; break      (lines 349-353, 421-425, 490-494)
RECURSIVE FirstSuccessful(_, _)
FirstSuccessful(results, k) ==
    IF k > Len(results) THEN NoSelection
    ELSE IF results[k].success THEN results[k]
    ELSE FirstSuccessful(results, k + 1)

\* OrchestrationResult(task_type=..., success=selected_result is not None,
\* selected_result=selected_result, all_results=results)
OrchestrationResult(kind, results) ==
    [task_type |-> kind,
     success |-> FirstSuccessful(results, 1) # NoSelection,
     selected_result |-> FirstSuccessful(results, 1),
     all_results |-> results]

OrchIdle ==
    /\ orch_pc = "start"
    /\ orch_tasks = <<>>
    /\ orch_outcome = <<>>
    /\ orch_finished = <<>>
    /\ orch_result = NoOrchestrationResult

OrchInit == OrchIdle

\* the task list of one call: one AgentTask per agent, in the order of agents
BuildTasks(kind, agents) ==
    [k \in 1..Len(agents) |-> AgentTask(agents[k], TaskIdOf(kind, <<"1">>, k - 1, 0))]

\* the call up to "await self.execute_parallel_tasks(tasks)"
StartBatch(kind) ==
    /\ orch_pc = "start"
    /\ \E agents \in AgentLists :
        /\ orch_tasks' = BuildTasks(kind, agents)
        /\ orch_outcome' = [k \in 1..Len(agents) |-> NoSelection]
    /\ orch_pc' = kind
    /\ UNCHANGED <<orch_finished, orch_result>>

\* one task of the batch ends, as a success or as a failure
TaskEnds(i) ==
    /\ orch_pc \in TaskKinds
    /\ i \in 1..Len(orch_tasks)
    /\ ~(\E k \in 1..Len(orch_finished) : orch_finished[k] = i)
    /\ \E ok \in BOOLEAN :
        orch_outcome' = [orch_outcome EXCEPT ![i] =
            [agent_name |-> orch_tasks[i].agent_name,
             task_id |-> orch_tasks[i].task_id, success |-> ok]]
    /\ orch_finished' = Append(orch_finished, i)
    /\ UNCHANGED <<orch_pc, orch_tasks, orch_result>>

\* gather resolved: the outcomes in submission order, the selection and the
\* returned OrchestrationResult
ReturnResult(kind) ==
    /\ orch_pc = kind
    /\ Len(orch_finished) = Len(orch_tasks)
    /\ orch_result' = OrchestrationResult(kind, orch_outcome)
    /\ orch_pc' = "returned"
    /\ UNCHANGED <<orch_tasks, orch_outcome, orch_finished>>

orchestrate_design == StartBatch("design") \/ ReturnResult("design")

orchestrate_feature == StartBatch("feat") \/ ReturnResult("feat")

orchestrate_development == StartBatch("dev") \/ ReturnResult("dev")

OrchNext ==
    \/ orchestrate_design
    \/ orchestrate_feature
    \/ orchestrate_development
    \/ \E i \in 1..MaxAgents : TaskEnds(i)

\* the tasks of the batch that ended as a success
Succeeded == {i \in 1..Len(orch_tasks) : orch_outcome[i].success}

\* C29
\* The returned OrchestrationResult has success exactly when a task of the
\* batch succeeded, selected_result is then the outcome of the successful task
\* submitted first (None otherwise), and all_results holds, at position i, the
\* outcome of the i-th task.
C29_FirstSuccessInSubmissionOrder ==
    orch_pc = "returned" =>
        /\ orch_result.success <=> Succeeded # {}
        /\ Succeeded = {} => orch_result.selected_result = NoSelection
        /\ \A i \in Succeeded :
               (\A j \in Succeeded : i <= j) =>
                   /\ orch_result.selected_result.task_id = orch_tasks[i].task_id
                   /\ orch_result.selected_result.success
        /\ Len(orch_result.all_results) = Len(orch_tasks)
        /\ \A i \in 1..Len(orch_tasks) :
               /\ orch_result.all_results[i].task_id = orch_tasks[i].task_id
               /\ orch_result.all_results[i].agent_name = orch_tasks[i].agent_name
               /\ orch_result.all_results[i].success = orch_outcome[i].success

\* two tasks succeeded and the one submitted later ended first
C29_Witness ==
    /\ orch_pc = "returned"
    /\ Cardinality(Succeeded) >= 2
    /\ \E i \in 1..Len(orch_tasks) : ~orch_outcome[i].success
    /\ orch_finished[1] \in Succeeded
    /\ \E j \in Succeeded : j < orch_finished[1]

(***************************************************************************)
(* MultiAgentOrchestrator.orchestrate (SpecMultiAgent, FairMultiAgent)     *)
(* multi_agent_base.py:220-308 with run_agent (139-183) and run_review     *)
(* (185-218).  A step is what orchestrate does between two awaits.         *)
(***************************************************************************)
\* largest max_retries
MaxRetries == 2

AgentNums == 1..3

\* what gather holds for one run_agent call: the content of a success
\* message, an empty content, None, or an exception
AgentOutcomes == {"text", "empty", "None", "exception"}

\* decision of parse_review_decision
Decisions == {"ACCEPT", "RETRY", "ESCALATE", "REVISE"}

NoReviewResult == "None"
ReviewResults == {NoReviewResult, "result"}

Feedbacks == {"", "mo_feedback"}

NotReturned == [returned |-> FALSE, success |-> FALSE, output_path |-> "None"]

Returns(success, output_path) ==
    [returned |-> TRUE, success |-> success, output_path |-> output_path]

\* if isinstance(result, str) and result: successful += 1     (lines 248-252)
Successful(rs) == Cardinality({i \in AgentNums : rs[i] = "text"})

\* faulty variant: whatever the review returned is saved
HasResult_Any(result) == TRUE
\* if result is not None     (lines 274, 299)
HasResult(result) == result # NoReviewResult

\* elif decision == "RETRY" and attempt < self.max_retries + 1     (line 281)
Retries(decision, n, retries) ==
    decision = "RETRY" /\ n < retries + 1

\* one entry of the record kept per attempt: calls of run_agent per agent,
\* calls of run_review, agents counted as successful
NewAttempt == [run_agent |-> [i \in AgentNums |-> 1], run_review |-> 0, successful |-> 0]

MoIdle ==
    /\ max_retries = 0
    /\ mo_pc = "loop"
    /\ mo_attempt = 0
    /\ mo_feedback = ""
    /\ mo_results = <<>>
    /\ mo_attempts = <<>>
    /\ save_final_output = <<>>
    /\ mo_return = NotReturned

MoInit ==
    /\ max_retries \in 0..MaxRetries
    /\ mo_pc = "loop"
    /\ mo_attempt = 0
    /\ mo_feedback = ""
    /\ mo_results = <<>>
    /\ mo_attempts = <<>>
    /\ save_final_output = <<>>
    /\ mo_return = NotReturned

\* for attempt in range(1, self.max_retries + 2): the three run_agent calls
\* are handed to gather (lines 238-243); after the last value of the range
\* the function returns (False, None) (lines 306-307), which no run with
\* max_retries >= 0 reaches because the last pass never continues
NextAttempt ==
    /\ mo_pc = "loop"
    /\ IF mo_attempt + 1 < max_retries + 2
       THEN /\ mo_attempt' = mo_attempt + 1
            /\ mo_attempts' = Append(mo_attempts, NewAttempt)
            /\ mo_pc' = "agents"
            /\ UNCHANGED mo_return
       ELSE /\ mo_return' = Returns(FALSE, "None")
            /\ mo_pc' = "returned"
            /\ UNCHANGED <<mo_attempt, mo_attempts>>
    /\ UNCHANGED <<max_retries, mo_feedback, mo_results, save_final_output>>

\* gather returned (lines 245-262): no successful agent ends the function,
\* otherwise run_review is called
AgentsReturned ==
    /\ mo_pc = "agents"
    /\ \E rs \in [AgentNums -> AgentOutcomes] :
        /\ mo_results' = rs
        /\ IF Successful(rs) = 0
           THEN /\ mo_return' = Returns(FALSE, "None")
                /\ mo_pc' = "returned"
                /\ mo_attempts' = mo_attempts
           ELSE /\ mo_attempts' = [mo_attempts EXCEPT ![mo_attempt] =
                       [@ EXCEPT !.successful = Successful(rs),
                                 !.run_review = @ + 1]]
                /\ mo_pc' = "review"
                /\ UNCHANGED mo_return
    /\ UNCHANGED <<max_retries, mo_attempt, mo_feedback, save_final_output>>

\* lines 270-304 for the triple run_review returned
Decide(decision, result, fb) ==
    /\ mo_feedback' = fb
    /\ IF decision = "ACCEPT"
       THEN IF HasResult(result)
            THEN /\ save_final_output' = Append(save_final_output, result)
                 /\ mo_return' = Returns(TRUE, "output_path")
                 /\ mo_pc' = "returned"
            ELSE /\ mo_return' = Returns(FALSE, "None")
                 /\ mo_pc' = "returned"
                 /\ UNCHANGED save_final_output
       ELSE IF Retries(decision, mo_attempt, max_retries)
       THEN /\ mo_pc' = "loop"
            /\ UNCHANGED <<mo_return, save_final_output>>
       ELSE IF decision = "ESCALATE"
       THEN /\ mo_return' = Returns(FALSE, "None")
            /\ mo_pc' = "returned"
            /\ UNCHANGED save_final_output
       ELSE IF HasResult(result)
            THEN /\ save_final_output' = Append(save_final_output, result)
                 /\ mo_return' = Returns(TRUE, "output_path")
                 /\ mo_pc' = "returned"
            ELSE /\ mo_return' = Returns(FALSE, "None")
                 /\ mo_pc' = "returned"
                 /\ UNCHANGED save_final_output
    /\ UNCHANGED <<max_retries, mo_attempt, mo_results, mo_attempts>>

\* run_review returned what parse_review_decision made of the review (line 211)
ReviewReturned ==
    /\ mo_pc = "review"
    /\ \E decision \in Decisions, result \in ReviewResults, fb \in Feedbacks :
        Decide(decision, result, fb)

\* run_review caught an exception or received no success message
\* (lines 213-218): "ACCEPT", None, ""
ReviewFailed ==
    /\ mo_pc = "review"
    /\ Decide("ACCEPT", NoReviewResult, "")

orchestrate ==
    \/ NextAttempt
    \/ AgentsReturned
    \/ ReviewReturned
    \/ ReviewFailed

\* C30
\* orchestrate returns; it never starts more than max_retries + 1 attempts;
\* every attempt calls run_agent once for each of the three agents and
\* run_review at most once, never when no agent was successful; and it
\* returns success only after save_final_output was called with a result
\* that is not None.
C30_OrchestrateTerminatesWithinRetries ==
    /\ <>(mo_return.returned)
    /\ [](/\ Len(mo_attempts) <= max_retries + 1
          /\ mo_attempt = Len(mo_attempts)
          /\ \A a \in 1..Len(mo_attempts) :
                /\ \A i \in AgentNums : mo_attempts[a].run_agent[i] = 1
                /\ mo_attempts[a].run_review <= 1
                /\ mo_attempts[a].successful = 0 => mo_attempts[a].run_review = 0
          /\ (mo_pc = "review" => Successful(mo_results) > 0)
          /\ (mo_return.returned /\ mo_return.success =>
                /\ save_final_output # <<>>
                /\ save_final_output[Len(save_final_output)] # NoReviewResult))

\* the last allowed attempt was reached by retries and ended with a saved result
C30_Witness ==
    /\ max_retries = MaxRetries
    /\ mo_attempt = max_retries + 1
    /\ mo_return.returned
    /\ mo_return.success
    /\ Len(save_final_output) = 1
    /\ \E i \in AgentNums : mo_results[i] # "text"

(***************************************************************************)
(* The specifications                                                      *)
(***************************************************************************)
Init == EngineInit /\ TlIdle /\ RoundIdle /\ StructIdle /\ EvalIdle /\ RegIdle /\ WsIdle /\ CuIdle /\ OrchIdle /\ MoIdle
Next == EngineNext /\ UNCHANGED <<tlVars, roundVars, structVars, evalVars, regVars, wsVars, cuVars, orchVars, moVars>>
Spec == Init /\ [][Next]_vars

InitTasks == EngineInit /\ TlInit /\ RoundIdle /\ StructIdle /\ EvalIdle /\ RegIdle /\ WsIdle /\ CuIdle /\ OrchIdle /\ MoIdle
NextTasks == TlNext /\ UNCHANGED <<engineVars, roundVars, structVars, evalVars, regVars, wsVars, cuVars, orchVars, moVars>>
SpecTasks == InitTasks /\ [][NextTasks]_vars

InitRound == EngineInit /\ TlIdle /\ RoundInit /\ StructIdle /\ EvalIdle /\ RegIdle /\ WsIdle /\ CuIdle /\ OrchIdle /\ MoIdle
NextRound == RoundNext /\ UNCHANGED <<engineVars, tlVars, structVars, evalVars, regVars, wsVars, cuVars, orchVars, moVars>>
SpecRound == InitRound /\ [][NextRound]_vars

InitStructure == EngineInit /\ TlIdle /\ RoundIdle /\ StructInit /\ EvalIdle /\ RegIdle /\ WsIdle /\ CuIdle /\ OrchIdle /\ MoIdle
NextStructure == StructNext /\ UNCHANGED <<engineVars, tlVars, roundVars, evalVars, regVars, wsVars, cuVars, orchVars, moVars>>
SpecStructure == InitStructure /\ [][NextStructure]_vars

InitEval == EngineInit /\ TlIdle /\ RoundIdle /\ StructIdle /\ EvalInit /\ RegIdle /\ WsIdle /\ CuIdle /\ OrchIdle /\ MoIdle
NextEval == EvalNext /\ UNCHANGED <<engineVars, tlVars, roundVars, structVars, regVars, wsVars, cuVars, orchVars, moVars>>
SpecEval == InitEval /\ [][NextEval]_vars

InitRegistry == EngineInit /\ TlIdle /\ RoundIdle /\ StructIdle /\ EvalIdle /\ RegInit /\ WsIdle /\ CuIdle /\ OrchIdle /\ MoIdle
NextRegistry == RegNext /\ UNCHANGED <<engineVars, tlVars, roundVars, structVars, evalVars, wsVars, cuVars, orchVars, moVars>>
SpecRegistry == InitRegistry /\ [][NextRegistry]_vars

InitWorkspace == EngineInit /\ TlIdle /\ RoundIdle /\ StructIdle /\ EvalIdle /\ RegIdle /\ WsInit /\ CuIdle /\ OrchIdle /\ MoIdle
NextWorkspace == WsNext /\ UNCHANGED <<engineVars, tlVars, roundVars, structVars, evalVars, regVars, cuVars, orchVars, moVars>>
SpecWorkspace == InitWorkspace /\ [][NextWorkspace]_vars

InitCleanup == EngineInit /\ TlIdle /\ RoundIdle /\ StructIdle /\ EvalIdle /\ RegIdle /\ WsIdle /\ CuInit /\ OrchIdle /\ MoIdle
NextCleanup == CuNext /\ UNCHANGED <<engineVars, tlVars, roundVars, structVars, evalVars, regVars, wsVars, orchVars, moVars>>
SpecCleanup == InitCleanup /\ [][NextCleanup]_vars

InitOrchestration == EngineInit /\ TlIdle /\ RoundIdle /\ StructIdle /\ EvalIdle /\ RegIdle /\ WsIdle /\ CuIdle /\ OrchInit /\ MoIdle
NextOrchestration == OrchNext /\ UNCHANGED <<engineVars, tlVars, roundVars, structVars, evalVars, regVars, wsVars, cuVars, moVars>>
SpecOrchestration == InitOrchestration /\ [][NextOrchestration]_vars

InitMultiAgent == EngineInit /\ TlIdle /\ RoundIdle /\ StructIdle /\ EvalIdle /\ RegIdle /\ WsIdle /\ CuIdle /\ OrchIdle /\ MoInit
NextMultiAgent == orchestrate /\ UNCHANGED <<engineVars, tlVars, roundVars, structVars, evalVars, regVars, wsVars, cuVars, orchVars>>
SpecMultiAgent == InitMultiAgent /\ [][NextMultiAgent]_vars

\* every await of orchestrate returns: the agents and the reviewer answer
FairMultiAgent == SpecMultiAgent /\ WF_vars(NextMultiAgent)

====
